---- MODULE Spec2Model ----
(***************************************************************************)
(* Storyclunk: request handlers, pipeline, scripts, CDK app, distribution. *)
(*                                                                         *)
(* One behaviour of Spec is the life of one warm execution context of one  *)
(* of the two functions (continue-story, suggest-improvements): the        *)
(* platform hands it one event at a time, the handler runs up to its next  *)
(* await, the awaited service answers, and the handler returns a response. *)
(* Module-level state (secretsCache) survives from one invocation to the   *)
(* next.                                                                   *)
(*                                                                         *)
(* SpecPipeline follows executions of the declared pipeline stages,        *)
(* SpecDeploy follows runs of scripts/deploy.sh for one environment,       *)
(* SpecApp synthesizes the CDK app for two environment names and context   *)
(* values, SpecBootstrap follows one run of bootstrap-cdk.sh, and          *)
(* SpecDistribution passes one origin response through the frontend        *)
(* stack's distribution.  Each specification leaves the variables of the   *)
(* others at their initial values.                                         *)
(***************************************************************************)
EXTENDS Integers, Sequences, FiniteSets, TLC

VARIABLES
    runtime,       \* the Node.js runtime NODEJS_LATEST resolved to at deployment
    fn,            \* which function this execution context hosts
    pc,            \* position of the current invocation
    event,         \* the event of the current invocation
    calls,         \* external calls sent by the current invocation, in order
    outbound,      \* the InvokeModelCommand input sent, if any
    fetched,       \* suggest-improvements: { data, error } of the datastore read
    inferred,      \* what `await bedrockClient.send(command)` produced
    caught,        \* the error the catch block received, with its origin
    response,      \* the value the handler returned
    secretsCache,  \* module-level `let secretsCache`
    secretStore,   \* SecretString held by the secret store for SECRETS_ARN
    storeReads,    \* GetSecretValue calls this process has sent (saturating)
    execution,     \* pipeline: number of executions started (0: none yet)
    actionState,   \* pipeline: per execution, the state of every action
    approvals,     \* pipeline: executions whose manual approval was granted
    deployed,      \* pipeline: per environment and part, the execution deployed
    args,          \* deploy.sh: $1 and the WITH_ASSETS environment variable
    sh,            \* deploy.sh: the running script's position and shell variables
    trail,         \* deploy.sh: the commands the current run executed, in order
    cloud,         \* deploy.sh: what is provisioned for the environment
    exits,         \* deploy.sh: exit codes of the earlier runs
    environments,  \* CDK app: the environment names of two deployments
    names,         \* CDK app: what each deployment's synthesis named
    contexts,      \* CDK app: the --context values of each synthesis
    assembly,      \* CDK app: the stacks each synthesis constructed
    bootstrapArgs, \* bootstrap-cdk.sh: $1, $2 and $3
    bootstrap,     \* bootstrap-cdk.sh: the running script's position and variables
    stacksInAccount, \* bootstrap-cdk.sh: the pipeline stack and CDKToolkit
    origin,        \* distribution: a viewer request and what its origin answered
    viewer         \* distribution: the response the browser received

handlerVars ==
    <<runtime, fn, pc, event, calls, outbound, fetched, inferred, caught, response, secretsCache, secretStore,
      storeReads>>

\* The handler state other than the stored secret, which deploy.sh creates.
handlerLocals ==
    <<runtime, fn, pc, event, calls, outbound, fetched, inferred, caught, response, secretsCache, storeReads>>

pipelineVars == <<execution, actionState, approvals, deployed>>

deployVars == <<args, sh, trail, cloud, exits>>

appVars == <<environments, names, contexts, assembly>>

bootstrapVars == <<bootstrapArgs, bootstrap, stacksInAccount>>

distributionVars == <<origin, viewer>>

\* What the request handlers never touch.
outsideHandlers == <<pipelineVars, deployVars, appVars, bootstrapVars, distributionVars>>

\* What the pipeline never touches.
outsidePipeline == <<handlerVars, deployVars, appVars, bootstrapVars, distributionVars>>

\* What deploy.sh never touches.
outsideDeploy == <<handlerLocals, pipelineVars, appVars, bootstrapVars, distributionVars>>

\* What the CDK app's synthesis never touches.
outsideApp == <<handlerVars, pipelineVars, deployVars, bootstrapVars, distributionVars>>

\* What bootstrap-cdk.sh never touches.
outsideBootstrap == <<handlerVars, pipelineVars, deployVars, appVars, distributionVars>>

\* What the distribution never touches.
outsideDistribution == <<handlerVars, pipelineVars, deployVars, appVars, bootstrapVars>>

vars == <<handlerVars, pipelineVars, deployVars, appVars, bootstrapVars, distributionVars>>

-----------------------------------------------------------------------------
(* Bounds *)

MaxSegments == 2      \* longest previousSegments array in a request
MaxStoreReads == 2    \* storeReads counts up to this many reads and then stays
MaxExecutions == 3    \* pipeline executions in one behaviour
MaxRuns == 2          \* deploy.sh runs in one behaviour

-----------------------------------------------------------------------------
(* JavaScript values.  Every value is a record with a type tag t.          *)

Undefined == [t |-> "undefined"]
Null      == [t |-> "null"]
Str(s)    == [t |-> "string", s |-> s]
Bool(b)   == [t |-> "boolean", b |-> b]
Num(n)    == [t |-> "number", n |-> n]
Arr(xs)   == [t |-> "array", items |-> xs]
Fun(name) == [t |-> "function", name |-> name]

\* A string holding well-formed JSON text; parsed is the value it denotes.
JsonText(v) == [t |-> "string", s |-> "<json>", parsed |-> v]

\* ToBoolean
Truthy(v) ==
    CASE v.t = "undefined" -> FALSE
      [] v.t = "null"      -> FALSE
      [] v.t = "boolean"   -> v.b
      [] v.t = "number"    -> v.n # 0
      [] v.t = "string"    -> v.s # ""
      [] OTHER             -> TRUE

\* a || b
OrElse(a, b) == IF Truthy(a) THEN a ELSE b

\* Property read o[k] on a value that is neither null nor undefined.
Get(o, k) == IF o.t = "object" /\ k \in DOMAIN o THEN o[k] ELSE Undefined

\* Decimal text of a small non-negative integer.
RECURSIVE Digits(_)
Digits(n) ==
    LET d == <<"0", "1", "2", "3", "4", "5", "6", "7", "8", "9">>
    IN  IF n < 10 THEN d[n + 1] ELSE Digits(n \div 10) \o d[(n % 10) + 1]

\* ToString, as a template literal applies it.  An array is the texts of
\* its elements joined by commas, a null or undefined element giving "".
RECURSIVE TemplateString(_), ArrayText(_)
TemplateString(v) ==
    CASE v.t = "undefined" -> "undefined"
      [] v.t = "null"      -> "null"
      [] v.t = "boolean"   -> IF v.b THEN "true" ELSE "false"
      [] v.t = "number"    -> Digits(v.n)
      [] v.t = "string"    -> v.s
      [] v.t = "function"  -> "function " \o v.name \o "() { [native code] }"
      [] v.t = "array"     -> ArrayText(v.items)
      [] OTHER             -> "[object Object]"

\* Array.prototype.toString: join(",")
ArrayText(items) ==
    IF Len(items) = 0 THEN ""
    ELSE LET first == IF items[1].t \in {"null", "undefined"} THEN ""
                      ELSE TemplateString(items[1])
         IN  IF Len(items) = 1 THEN first
             ELSE first \o "," \o ArrayText(Tail(items))

\* Errors are records of a name and a message.
Err(name, message) == [name |-> name, message |-> message]

TypeError(message) == Err("TypeError", message)

\* Outcome of evaluating an expression: a value, or a thrown error.
Ok(v)     == [ok |-> TRUE, value |-> v]
Throw(e)  == [ok |-> FALSE, error |-> e]

\* lambda.Runtime.NODEJS_LATEST: the runtime depends on the CDK version the
\* stack is synthesized with, which the repository does not pin.
Runtimes == {"nodejs18.x", "nodejs20.x", "nodejs22.x"}

LatestRuntime == "nodejs22.x"

\* The message of the SyntaxError JSON.parse throws on a text that is not
\* JSON, which is the runtime's.  The texts are those the model's requests,
\* secrets and inference responses hold, and the texts of undefined and of
\* an object.
SyntaxErrorMessage(node, text) ==
    CASE text = "" -> "Unexpected end of JSON input"
      [] text = "{\"genre\":" -> "Unexpected end of JSON input"
      [] text = "{" ->
            IF node = "nodejs18.x" THEN "Unexpected end of JSON input"
            ELSE IF node = "nodejs20.x"
            THEN "Expected property name or '}' in JSON at position 1"
            ELSE "Expected property name or '}' in JSON at position 1 (line 1 column 2)"
      [] text = "not json" ->
            IF node = "nodejs18.x" THEN "Unexpected token o in JSON at position 1"
            ELSE "Unexpected token 'o', \"not json\" is not valid JSON"
      [] text = "undefined" ->
            IF node = "nodejs18.x" THEN "Unexpected token u in JSON at position 0"
            ELSE "\"undefined\" is not valid JSON"
      [] text = "[object Object]" ->
            IF node = "nodejs18.x" THEN "Unexpected token o in JSON at position 1"
            ELSE "\"[object Object]\" is not valid JSON"

\* JSON.parse(value) on the runtime node.  JsonText(v) parses to v; any other
\* value is converted to its text first, so null, a number and a boolean
\* parse to themselves.
JSONparseOn(node, value) ==
    IF "parsed" \in DOMAIN value
    THEN Ok(value.parsed)
    ELSE IF value.t \in {"null", "number", "boolean"}
    THEN Ok(value)
    ELSE Throw(Err("SyntaxError", SyntaxErrorMessage(node, TemplateString(value))))

\* JSON.parse in the running function.
JSONparse(value) == JSONparseOn(runtime, value)

\* The characters JSON.stringify escapes in a string: the double quote, the
\* backslash and the control characters.  The texts are those of the model
\* that hold such a character.
JsonEscape(text) ==
    CASE text = "\"undefined\" is not valid JSON" -> "\\\"undefined\\\" is not valid JSON"
      [] text = "\"[object Object]\" is not valid JSON"
            -> "\\\"[object Object]\\\" is not valid JSON"
      [] text = "Unexpected token 'o', \"not json\" is not valid JSON"
            -> "Unexpected token 'o', \\\"not json\\\" is not valid JSON"
      [] text = "Malformed input request: \"max_tokens\" too large"
            -> "Malformed input request: \\\"max_tokens\\\" too large"
      [] text = "Line one.\nLine two." -> "Line one.\\nLine two."
      [] text = "back\\slash" -> "back\\\\slash"
      [] OTHER -> text

\* JSON.stringify({ [key]: value }) for a primitive value: the key is
\* dropped when the value is undefined or a function.
JSONstringify1(key, value) ==
    IF value.t \in {"undefined", "function"}
    THEN "{}"
    ELSE "{\"" \o key \o "\":"
           \o (IF value.t = "string" THEN "\"" \o JsonEscape(value.s) \o "\""
               ELSE TemplateString(value))
           \o "}"

-----------------------------------------------------------------------------
(* Responses *)

corsHeaders ==
    ("Access-Control-Allow-Origin" :> "*") @@
    ("Access-Control-Allow-Headers" :> "authorization, x-client-info, apikey, content-type") @@
    ("Access-Control-Allow-Methods" :> "GET, POST, OPTIONS")

\* Variant: the spread of corsHeaders is left out.
ContentTypeOnly == ("Content-Type" :> "application/json")

\* { ...corsHeaders, 'Content-Type': 'application/json' }
JsonHeaders == ("Content-Type" :> "application/json") @@ corsHeaders

NoResponse == [statusCode |-> 0, headers |-> <<>>, body |-> ""]

\* Variant: the preflight answer built like the JSON answers.
PreflightLikeJson == [statusCode |-> 200, headers |-> JsonHeaders, body |-> ""]

\* The answer to an OPTIONS request.
Preflight == [statusCode |-> 200, headers |-> corsHeaders, body |-> ""]

JsonResponse(status, key, value) ==
    [statusCode |-> status, headers |-> JsonHeaders, body |-> JSONstringify1(key, value)]

ErrorResponse(status, message) == JsonResponse(status, "error", Str(message))

RateLimitNames == {"ThrottlingException", "ServiceQuotaExceededException"}

\* The catch block of either handler.
CatchBlock(error) ==
    IF error.name \in RateLimitNames
    THEN ErrorResponse(429, "Rate limit exceeded. Please try again in a moment.")
    ELSE ErrorResponse(500, TemplateString(OrElse(Str(error.message), Str("An error occurred"))))

-----------------------------------------------------------------------------
(* The inference request, shared by both handlers *)

modelId == "us.anthropic.claude-haiku-4-5-20251001-v1:0"

\* The prompt object; temperature is kept as its JSON number token.
Prompt(text) ==
    [anthropic_version |-> "bedrock-2023-05-31",
     max_tokens  |-> 4096,
     temperature |-> "0.7",
     messages    |-> << [role |-> "user",
                         content |-> << [type |-> "text", text |-> text] >>] >>]

InvokeModelCommand(text) ==
    [modelId |-> modelId,
     contentType |-> "application/json",
     accept |-> "application/json",
     body |-> Prompt(text)]

NoCommand == [modelId |-> "none"]

\* v[0] on a value that is neither null nor undefined: the first element of
\* an array, the first character of a string (a string), the property "0" of
\* an object, and undefined otherwise.
Element0(v) ==
    CASE v.t = "array"  -> IF Len(v.items) = 0 THEN Undefined ELSE v.items[1]
      [] v.t = "string" -> IF v.s = "" THEN Undefined ELSE Str("<first character>")
      [] OTHER          -> Get(v, "0")

\* responseBody.content[0].text, on the parsed response body.
FirstText(responseBody) ==
    IF responseBody.t \in {"null", "undefined"}
    THEN Throw(TypeError("Cannot read properties of " \o responseBody.t \o " (reading 'content')"))
    ELSE LET content == Get(responseBody, "content") IN
         IF content.t \in {"null", "undefined"}
         THEN Throw(TypeError("Cannot read properties of " \o content.t \o " (reading '0')"))
         ELSE LET first == Element0(content) IN
              IF first.t \in {"null", "undefined"}
              THEN Throw(TypeError("Cannot read properties of " \o first.t \o " (reading 'text')"))
              ELSE Ok(Get(first, "text"))

\* Variant: a failed inference call is answered 200 with an empty text
\* instead of reaching the catch block.
AfterInferenceSwallowing(outcome, key) ==
    IF ~outcome.ok
    THEN [response |-> JsonResponse(200, key, Str("")), caught |-> Err("", ""), origin |-> "none"]
    ELSE LET parsed == JSONparse(outcome.value) IN
         IF ~parsed.ok
         THEN [response |-> CatchBlock(parsed.error), caught |-> parsed.error, origin |-> "handler"]
         ELSE LET text == FirstText(parsed.value) IN
              IF ~text.ok
              THEN [response |-> CatchBlock(text.error), caught |-> text.error, origin |-> "handler"]
              ELSE [response |-> JsonResponse(200, key, text.value),
                    caught |-> Err("", ""), origin |-> "none"]

\* What follows `await bedrockClient.send(command)` up to the return: the
\* outcome is a rejection (an error) or a response whose body is a JSON text.
AfterInference(outcome, key) ==
    IF ~outcome.ok
    THEN [response |-> CatchBlock(outcome.error), caught |-> outcome.error, origin |-> "inference"]
    ELSE LET parsed == JSONparse(outcome.value) IN
         IF ~parsed.ok
         THEN [response |-> CatchBlock(parsed.error), caught |-> parsed.error, origin |-> "handler"]
         ELSE LET text == FirstText(parsed.value) IN
              IF ~text.ok
              THEN [response |-> CatchBlock(text.error), caught |-> text.error, origin |-> "handler"]
              ELSE [response |-> JsonResponse(200, key, text.value),
                    caught |-> Err("", ""), origin |-> "none"]

-----------------------------------------------------------------------------
(* continue-story *)

genrePrompts ==
    ("scary" :> "You are a master horror writer. Create suspenseful, eerie, and thrilling story continuations that keep readers on edge. Use vivid, atmospheric descriptions and build tension.") @@
    ("funny" :> "You are a comedic storyteller. Create humorous, witty, and entertaining story continuations with clever wordplay, unexpected twists, and laugh-out-loud moments.") @@
    ("sci-fi" :> "You are a science fiction author. Create imaginative, thought-provoking story continuations with advanced technology, alien worlds, and futuristic concepts.")

\* Properties every object literal inherits from Object.prototype, with the
\* value each one holds: a function, or for __proto__ the prototype object.
ObjectPrototype ==
    ("constructor" :> Fun("Object")) @@
    [name \in {"toString", "valueOf", "hasOwnProperty", "isPrototypeOf",
               "propertyIsEnumerable", "toLocaleString", "__defineGetter__",
               "__defineSetter__", "__lookupGetter__", "__lookupSetter__"} |-> Fun(name)] @@
    ("__proto__" :> [t |-> "object"])

\* genrePrompts[genre]: an own entry, an inherited property, or undefined.
GenreLookup(genre) ==
    LET key == TemplateString(genre) IN
    IF key \in DOMAIN genrePrompts THEN Str(genrePrompts[key])
    ELSE IF key \in DOMAIN ObjectPrototype THEN ObjectPrototype[key]
    ELSE Undefined

\* const systemPrompt = genrePrompts[genre] || genrePrompts['sci-fi']
SystemPrompt(genre) == OrElse(GenreLookup(genre), Str(genrePrompts["sci-fi"]))

\* Variant: the two tags exchanged.
SegmentLineSwapped(seg) ==
    (IF Truthy(Get(seg, "is_ai_generated")) THEN "[User]" ELSE "[AI]")
        \o ": " \o TemplateString(Get(seg, "content"))

\* `${seg.is_ai_generated ? '[AI]' : '[User]'}: ${seg.content}`
SegmentLine(seg) ==
    (IF Truthy(Get(seg, "is_ai_generated")) THEN "[AI]" ELSE "[User]")
        \o ": " \o TemplateString(Get(seg, "content"))

\* Array.prototype.map with SegmentLine
MapLines(items) == [i \in 1..Len(items) |-> SegmentLine(items[i])]

\* Array.prototype.join
RECURSIVE Join(_, _)
Join(lines, sep) ==
    IF Len(lines) = 0 THEN ""
    ELSE IF Len(lines) = 1 THEN lines[1]
    ELSE lines[1] \o sep \o Join(Tail(lines), sep)

\* previousSegments.map(...).join('\n\n'), on a truthy previousSegments
StoryContext(previousSegments) ==
    IF previousSegments.t # "array"
    THEN Throw(TypeError("previousSegments.map is not a function"))
    ELSE IF \E i \in 1..Len(previousSegments.items) : previousSegments.items[i].t = "null"
    THEN Throw(TypeError("Cannot read properties of null (reading 'is_ai_generated')"))
    ELSE Ok(Join(MapLines(previousSegments.items), "\n\n"))

UserPrompt(genre, storyContext) ==
    "Continue this " \o TemplateString(genre)
      \o " story with 2-3 engaging paragraphs that naturally flow from what came before. Make it creative and compelling:\n\n"
      \o storyContext \o "\n\nYour continuation:"

Returned(r)      == [kind |-> "return", response |-> r, caught |-> Err("", ""), origin |-> "none"]
Failed(e)        == [kind |-> "return", response |-> CatchBlock(e), caught |-> e, origin |-> "handler"]
Sent(cmd)        == [kind |-> "send", command |-> cmd]

\* exports.handler of continue-story, up to `await bedrockClient.send(command)`
ContinueStory(ev) ==
    IF ev.httpMethod = "OPTIONS" THEN Returned(Preflight)
    ELSE LET parsed == JSONparse(OrElse(ev.body, JsonText([t |-> "object"]))) IN
    IF ~parsed.ok THEN Failed(parsed.error)
    ELSE LET requestBody == parsed.value IN
    IF requestBody.t = "null"
    THEN Failed(TypeError("Cannot destructure property 'previousSegments' of 'requestBody' as it is null."))
    ELSE LET previousSegments == Get(requestBody, "previousSegments")
             genre == Get(requestBody, "genre") IN
    IF ~Truthy(previousSegments) \/ ~Truthy(genre)
    THEN Returned(ErrorResponse(400, "previousSegments and genre are required"))
    ELSE LET storyContext == StoryContext(previousSegments) IN
    IF ~storyContext.ok THEN Failed(storyContext.error)
    ELSE Sent(InvokeModelCommand(
            TemplateString(SystemPrompt(genre)) \o "\n\n" \o UserPrompt(genre, storyContext.value)))

-----------------------------------------------------------------------------
(* suggest-improvements *)

coachPrompt ==
    "You are an expert creative writing coach. Analyze the provided story segment and suggest specific, actionable improvements. Focus on:\n- Narrative flow and pacing\n- Character development\n- Descriptive language and imagery\n- Dialogue quality (if present)\n- Genre-specific elements\n- Grammar and style\n\nProvide 3-5 concrete suggestions that will enhance the writing quality."

\* o?.k
OptGet(o, k) == IF o.t \in {"null", "undefined"} THEN Undefined ELSE Get(o, k)

\* createClient(url, key) of the datastore library: rejects a URL that does
\* not parse as one.
ValidUrls == {"https://storyclunk.supabase.co", "https://storyclunk-2.supabase.co"}

CreateClient(url, key) ==
    IF url.t = "string" /\ url.s \in ValidUrls
    THEN Ok([url |-> url, key |-> key])
    ELSE Throw(TypeError("Invalid URL"))

\* Variant: the handler without the credentials check of lines 56-58.
AfterSecretsUnchecked(secrets) ==
    IF secrets.t \in {"null", "undefined"}
    THEN Failed(TypeError("Cannot read properties of null (reading 'SUPABASE_URL')"))
    ELSE LET supabase == CreateClient(Get(secrets, "SUPABASE_URL"), Get(secrets, "SUPABASE_SERVICE_ROLE_KEY")) IN
    IF ~supabase.ok THEN Failed(supabase.error)
    ELSE [kind |-> "query"]

\* From the credentials check to the datastore read being sent.
AfterSecrets(secrets) ==
    IF secrets.t \in {"null", "undefined"}
    THEN Failed(TypeError("Cannot read properties of null (reading 'SUPABASE_URL')"))
    ELSE IF ~Truthy(Get(secrets, "SUPABASE_URL")) \/ ~Truthy(Get(secrets, "SUPABASE_SERVICE_ROLE_KEY"))
    THEN Failed(Err("Error", "Supabase credentials not configured"))
    ELSE LET supabase == CreateClient(Get(secrets, "SUPABASE_URL"), Get(secrets, "SUPABASE_SERVICE_ROLE_KEY")) IN
    IF ~supabase.ok THEN Failed(supabase.error)
    ELSE [kind |-> "query"]

\* Variant: getSecrets() without `if (secretsCache) return secretsCache;`,
\* so that every invocation that needs secrets reads the store.
SuggestImprovementsUncached(ev, cache) ==
    IF ev.httpMethod = "OPTIONS" THEN Returned(Preflight)
    ELSE LET parsed == JSONparse(OrElse(ev.body, JsonText([t |-> "object"]))) IN
    IF ~parsed.ok THEN Failed(parsed.error)
    ELSE LET requestBody == parsed.value IN
    IF requestBody.t = "null"
    THEN Failed(TypeError("Cannot destructure property 'segmentId' of 'requestBody' as it is null."))
    ELSE LET segmentId == Get(requestBody, "segmentId") IN
    IF ~Truthy(segmentId)
    THEN Returned(ErrorResponse(400, "Segment ID is required"))
    ELSE [kind |-> "getSecret"]

\* exports.handler of suggest-improvements, up to its first await that
\* leaves the process: getSecrets() answers from the cache when it is truthy.
SuggestImprovements(ev, cache) ==
    IF ev.httpMethod = "OPTIONS" THEN Returned(Preflight)
    ELSE LET parsed == JSONparse(OrElse(ev.body, JsonText([t |-> "object"]))) IN
    IF ~parsed.ok THEN Failed(parsed.error)
    ELSE LET requestBody == parsed.value IN
    IF requestBody.t = "null"
    THEN Failed(TypeError("Cannot destructure property 'segmentId' of 'requestBody' as it is null."))
    ELSE LET segmentId == Get(requestBody, "segmentId") IN
    IF ~Truthy(segmentId)
    THEN Returned(ErrorResponse(400, "Segment ID is required"))
    ELSE IF Truthy(cache) THEN AfterSecrets(cache)
    ELSE [kind |-> "getSecret"]

\* Variant: getSecrets() storing the SecretString before parsing it, so that
\* an unparseable payload stays in the cache.
AfterSecretFetchCachingRaw(outcome, cache) ==
    IF ~outcome.ok
    THEN [cache |-> cache,
          next |-> [kind |-> "return", response |-> CatchBlock(outcome.error),
                    caught |-> outcome.error, origin |-> "secrets"]]
    ELSE LET parsed == JSONparse(outcome.value) IN
         IF ~parsed.ok
         THEN [cache |-> outcome.value, next |-> Failed(parsed.error)]
         ELSE [cache |-> parsed.value, next |-> AfterSecrets(parsed.value)]

\* getSecrets() after `await client.send(...)`: the new cache and what the
\* handler does next.  outcome is a rejection or the SecretString.
AfterSecretFetch(outcome, cache) ==
    IF ~outcome.ok
    THEN [cache |-> cache,
          next |-> [kind |-> "return", response |-> CatchBlock(outcome.error),
                    caught |-> outcome.error, origin |-> "secrets"]]
    ELSE LET parsed == JSONparse(outcome.value) IN
         IF ~parsed.ok
         THEN [cache |-> cache, next |-> Failed(parsed.error)]
         ELSE [cache |-> parsed.value, next |-> AfterSecrets(parsed.value)]

\* The inference request for a loaded segment row.
AnalysisRequest(row) ==
    LET storyData == Get(row, "stories")
        genre == IF storyData.t = "array"
                 THEN (IF Len(storyData.items) = 0 THEN Undefined
                       ELSE OptGet(storyData.items[1], "genre"))
                 ELSE OptGet(storyData, "genre")
        userPrompt == "Genre: " \o TemplateString(genre)
                        \o "\n\nStory segment to analyze:\n\n"
                        \o TemplateString(Get(row, "content"))
                        \o "\n\nProvide specific improvement suggestions:"
    IN  InvokeModelCommand(coachPrompt \o "\n\n" \o userPrompt)

\* Variant: the datastore's error is rethrown instead of being answered 404.
AfterDatastoreRethrowing(result) ==
    IF Truthy(result.error)
    THEN Failed(Err("PostgrestError", result.error.message.s))
    ELSE IF ~Truthy(result.data)
    THEN Returned(ErrorResponse(404, "Segment not found"))
    ELSE Sent(AnalysisRequest(result.data))

\* From the datastore's answer { data, error } to the inference call.
AfterDatastore(result) ==
    IF Truthy(result.error) \/ ~Truthy(result.data)
    THEN Returned(ErrorResponse(404, "Segment not found"))
    ELSE Sent(AnalysisRequest(result.data))

-----------------------------------------------------------------------------
(* The environment: requests, the secret store, the datastore, inference *)

Functions == {"continue-story", "suggest-improvements"}

Methods == {"OPTIONS", "POST", "GET"}

SeqsUpTo(S, n) == UNION {[1..k -> S] : k \in 0..n}

Contents == {"It was a dark night.", "The door creaked."}

SegmentValues ==
    {[t |-> "object", content |-> Str(c), is_ai_generated |-> f] :
        c \in Contents, f \in {Bool(TRUE), Bool(FALSE), Undefined}} \cup {Null}

PreviousSegmentsValues ==
    {Undefined, Null, Str("once upon a time")}
        \cup {Arr(xs) : xs \in SeqsUpTo(SegmentValues, MaxSegments)}

GenreValues ==
    {Undefined, Str(""), Str("scary"), Str("funny"), Str("sci-fi"), Str("fantasy"),
     Str("constructor"), Str("toString"), Str("__proto__"), Arr(<<Str("scary")>>), Num(5)}

SegmentIdValues ==
    {Undefined, Null, Str(""), Num(0), Num(7),
     Str("seg-1"), Str("seg-2"), Str("seg-3"), Str("seg-9")}

\* event.body: absent, null, empty, malformed, or JSON text of a non-object
RawBodies ==
    {Undefined, Null, Str(""), Str("{"), Str("not json"), JsonText(Null), JsonText(Num(5))}

Bodies(f) ==
    RawBodies \cup
    (IF f = "continue-story"
     THEN {JsonText([t |-> "object", previousSegments |-> p, genre |-> g]) :
              p \in PreviousSegmentsValues, g \in GenreValues}
     ELSE {JsonText([t |-> "object", segmentId |-> i]) : i \in SegmentIdValues})

Events(f) == [httpMethod : Methods, body : Bodies(f)]

\* Rows of story_segments joined with stories(genre), by id.
StoredSegments ==
    ("seg-1" :> [t |-> "object", content |-> Str("It was a dark night."), story_id |-> Str("story-1"),
                 stories |-> [t |-> "object", genre |-> Str("scary")]]) @@
    ("seg-2" :> [t |-> "object", content |-> Str("The door creaked."), story_id |-> Str("story-2"),
                 stories |-> Arr(<< [t |-> "object", genre |-> Str("fantasy")] >>)]) @@
    ("seg-3" :> [t |-> "object", content |-> Str("The door creaked."), story_id |-> Str("story-3"),
                 stories |-> Null])

DatastoreErrors ==
    {[t |-> "object", code |-> Str(""), message |-> Str("TypeError: fetch failed")],
     [t |-> "object", code |-> Str("42501"), message |-> Str("permission denied for table story_segments")]}

NoRows == [t |-> "object", code |-> Str("PGRST116"),
           message |-> Str("JSON object requested, multiple (or no) rows returned")]

\* Answers { data, error } of .eq('id', segmentId).single()
DatastoreAnswers(segmentId) ==
    LET id == TemplateString(segmentId) IN
    {[data |-> Null, error |-> e] : e \in DatastoreErrors} \cup
    (IF id \in DOMAIN StoredSegments
     THEN {[data |-> StoredSegments[id], error |-> Null]}
     ELSE {[data |-> Null, error |-> NoRows]})

NoFetch == [data |-> Undefined, error |-> Undefined]

Bundle(url, anon, service) ==
    [t |-> "object", SUPABASE_URL |-> url, SUPABASE_ANON_KEY |-> anon, SUPABASE_SERVICE_ROLE_KEY |-> service]

\* The secret deploy.sh creates.
PlaceholderSecret == JsonText(Bundle(Str("PLACEHOLDER"), Str("PLACEHOLDER"), Str("PLACEHOLDER")))

\* Values the operator may later store under SECRETS_ARN (Undefined: a
\* binary secret, which has no SecretString).
SecretStrings ==
    {PlaceholderSecret,
     JsonText(Bundle(Str("https://storyclunk.supabase.co"), Str("anon-1"), Str("service-1"))),
     JsonText(Bundle(Str("https://storyclunk-2.supabase.co"), Str("anon-2"), Str("service-2"))),
     JsonText(Bundle(Str("https://storyclunk.supabase.co"), Str("anon-1"), Undefined)),
     JsonText(Bundle(Str(""), Str("anon-1"), Str("service-1"))),
     JsonText(Null),
     Str("{"),
     Undefined}

SecretStoreErrors ==
    {Err("AccessDeniedException", "User is not authorized to perform: secretsmanager:GetSecretValue"),
     Err("ResourceNotFoundException", "Secrets Manager can't find the specified secret."),
     Err("ThrottlingException", "Rate exceeded")}

InferenceErrors ==
    {Err("ThrottlingException", "Too many requests, please wait before trying again."),
     Err("ServiceQuotaExceededException", "Your request exceeds the service quota for your account."),
     Err("AccessDeniedException", "You don't have access to the model with the specified model ID."),
     Err("ValidationException", "Malformed input request: \"max_tokens\" too large"),
     Err("ModelTimeoutException", "")}

TextBlock(text) == [t |-> "object", type |-> Str("text"), text |-> Str(text)]

\* Decoded response bodies of the inference service.
InferenceBodies ==
    {JsonText([t |-> "object", content |-> Arr(<<TextBlock("The shadows moved.")>>)]),
     JsonText([t |-> "object", content |-> Arr(<<TextBlock("First."), TextBlock("Second.")>>)]),
     JsonText([t |-> "object", content |-> Arr(<< [t |-> "object", type |-> Str("tool_use")] >>)]),
     JsonText([t |-> "object", content |-> Arr(<< [t |-> "object", type |-> Str("tool_use")],
                                                  TextBlock("After the tool.") >>)]),
     JsonText([t |-> "object", content |-> Arr(<< >>)]),
     JsonText([t |-> "object", content |-> Arr(<<TextBlock("Line one.\nLine two.")>>)]),
     JsonText([t |-> "object", content |-> Null]),
     JsonText([t |-> "object", content |-> Str("abc")]),
     JsonText([t |-> "object", message |-> Str("no content")]),
     JsonText(Null),
     Str("{")}

InferenceOutcomes == {Throw(e) : e \in InferenceErrors} \cup {Ok(b) : b \in InferenceBodies}

\* The responses inference can lead to, for the result key of a handler.
InferenceResponses(key) == {AfterInference(outcome, key).response : outcome \in InferenceOutcomes}

\* The responses a step of suggest-improvements leads to for the event ev:
\* the response it returns, or those of the call it goes on to, for every
\* answer of the called service (store: the SecretString stored).
RECURSIVE ResponsesFrom(_, _, _)
ResponsesFrom(next, ev, store) ==
    CASE next.kind = "return" -> {next.response}
      [] next.kind = "send" -> InferenceResponses("suggestions")
      [] next.kind = "query" ->
            UNION {ResponsesFrom(AfterDatastore(answer), ev, store) :
                      answer \in DatastoreAnswers(Get(JSONparse(ev.body).value, "segmentId"))}
      [] next.kind = "getSecret" ->
            UNION {ResponsesFrom(AfterSecretFetch(outcome, Null).next, ev, store) :
                      outcome \in {Throw(e) : e \in SecretStoreErrors} \cup {Ok(store)}}

\* A bundle a warm execution context holds, or null on a cold one.
Caches == {Null} \cup {s.parsed : s \in {x \in SecretStrings : "parsed" \in DOMAIN x}}

\* Every response the handler of a function gives to an event with one of
\* the methods: continue-story from its first step and the inference answer,
\* suggest-improvements on a cold or warm execution context and whatever the
\* secret store, the datastore and inference answer.
ResponsesTo(functionName, methods) ==
    IF functionName = "continue-story"
    THEN UNION {LET next == ContinueStory(ev) IN
                IF next.kind = "return" THEN {next.response} ELSE InferenceResponses("continuation") :
                   ev \in [httpMethod : methods, body : Bodies(functionName)]}
    ELSE UNION {ResponsesFrom(SuggestImprovements(x.ev, x.cache), x.ev, x.store) :
                   x \in [ev : [httpMethod : methods, body : Bodies(functionName)],
                          cache : Caches, store : SecretStrings]}

\* resource.addMethod("POST", integration), resource.addMethod("GET",
\* integration): the methods of a route that reach its handler.
BoundMethods == {"POST", "GET"}

\* The responses a handler gives through its route.
HandlerResponses(functionName) == ResponsesTo(functionName, BoundMethods)

-----------------------------------------------------------------------------
(* The promotion pipeline as PipelineStack declares it *)

artifacts ==
    [source        |-> "SourceOutput",
     lint          |-> "LintTypeSecretsOutput",
     unit          |-> "UnitTestsOutput",
     depScan       |-> "DepScanOutput",
     frontendBuild |-> "FrontendBuildOutput",
     backendBuild  |-> "BackendBuildOutput",
     iacSynth      |-> "IacSynthOutput"]

\* new codepipeline_actions.CodeBuildAction({...}); runOrder defaults to 1.
\* deploys names what the action's project deploys ("none": nothing).
CodeBuildAction(actionName, project, inputs, outputs, environment, deploys, runOrder) ==
    [actionName |-> actionName, category |-> "Build", project |-> project,
     inputs |-> inputs, outputs |-> outputs, environment |-> environment,
     deploys |-> deploys, runOrder |-> runOrder]

\* The stages as the StageProps of the source give them: stageName and
\* actions.  onFailure is what a stage declares for a failure of one of its
\* actions ("RETRY", "ROLLBACK"); "none": the property is not given, as in
\* every stage of the source, and a failing stage just stops its execution.
SourceStage ==
    [stageName |-> "Source",
     actions |-> << [actionName |-> "Source", category |-> "Source", project |-> "none",
                     inputs |-> {}, outputs |-> {artifacts.source}, environment |-> "none",
                     deploys |-> "none", runOrder |-> 1] >>,
     onFailure |-> "none"]

UpdatePipelineStage ==
    [stageName |-> "UpdatePipeline",
     actions |-> << CodeBuildAction("UpdatePipeline", "updatePipelineProject",
                                    {artifacts.source}, {}, "none", "none", 1) >>,
     onFailure |-> "none"]

QualityStage ==
    [stageName |-> "Quality",
     actions |-> << CodeBuildAction("LintTypeSecrets", "lintTypeSecretsProject",
                                    {artifacts.source}, {artifacts.lint}, "none", "none", 1),
                    CodeBuildAction("UnitTests", "unitTestsProject",
                                    {artifacts.source}, {artifacts.unit}, "none", "none", 1),
                    CodeBuildAction("DepScan", "depScanProject",
                                    {artifacts.source}, {artifacts.depScan}, "none", "none", 1) >>,
     onFailure |-> "none"]

\* Variant: the IacSynth action declared without its output artifact.
BuildStageWithoutSynthOutput ==
    [stageName |-> "Build",
     actions |-> << CodeBuildAction("FrontendBuild", "frontendBuildProject",
                                    {artifacts.source}, {artifacts.frontendBuild}, "none", "none", 1),
                    CodeBuildAction("BackendBuild", "backendBuildProject",
                                    {artifacts.source}, {artifacts.backendBuild}, "none", "none", 1),
                    CodeBuildAction("IacSynth", "iacSynthProject",
                                    {artifacts.source}, {}, "none", "none", 1) >>,
     onFailure |-> "none"]

BuildStage ==
    [stageName |-> "Build",
     actions |-> << CodeBuildAction("FrontendBuild", "frontendBuildProject",
                                    {artifacts.source}, {artifacts.frontendBuild}, "none", "none", 1),
                    CodeBuildAction("BackendBuild", "backendBuildProject",
                                    {artifacts.source}, {artifacts.backendBuild}, "none", "none", 1),
                    CodeBuildAction("IacSynth", "iacSynthProject",
                                    {artifacts.source}, {artifacts.iacSynth}, "none", "none", 1) >>,
     onFailure |-> "none"]

\* Variant: the dev deploy stage declared with an automatic retry on failure.
DeployDevStageRetrying ==
    [stageName |-> "DeployDev",
     actions |-> << CodeBuildAction("DeployBackendDev", "deployBackendProject",
                                    {artifacts.source, artifacts.backendBuild, artifacts.iacSynth},
                                    {}, "dev", "backend", 1),
                    CodeBuildAction("DeployFrontendDev", "deployFrontendProject",
                                    {artifacts.source, artifacts.frontendBuild},
                                    {"FrontendDeployDev"}, "dev", "frontend", 2) >>,
     onFailure |-> "RETRY"]

DeployDevStage ==
    [stageName |-> "DeployDev",
     actions |-> << CodeBuildAction("DeployBackendDev", "deployBackendProject",
                                    {artifacts.source, artifacts.backendBuild, artifacts.iacSynth},
                                    {}, "dev", "backend", 1),
                    CodeBuildAction("DeployFrontendDev", "deployFrontendProject",
                                    {artifacts.source, artifacts.frontendBuild},
                                    {"FrontendDeployDev"}, "dev", "frontend", 2) >>,
     onFailure |-> "none"]

ManualApprovalStage ==
    [stageName |-> "ManualApproval",
     actions |-> << [actionName |-> "ApproveProductionDeployment", category |-> "Approval",
                     project |-> "none", inputs |-> {}, outputs |-> {}, environment |-> "none",
                     deploys |-> "none", runOrder |-> 1] >>,
     onFailure |-> "none"]

\* Variant: the three prod actions declared with one and the same runOrder.
DeployProdStageUnordered ==
    [stageName |-> "DeployProd",
     actions |-> << CodeBuildAction("DeployBackendProd", "deployBackendProject",
                                    {artifacts.source, artifacts.backendBuild, artifacts.iacSynth},
                                    {}, "prod", "backend", 1),
                    CodeBuildAction("DeployFrontendProd", "deployFrontendProject",
                                    {artifacts.source, artifacts.frontendBuild},
                                    {"FrontendDeployProd"}, "prod", "frontend", 1),
                    CodeBuildAction("HealthCheckProd", "healthCheckProject",
                                    {artifacts.source, "FrontendDeployProd"},
                                    {}, "prod", "none", 1) >>,
     onFailure |-> "none"]

DeployProdStage ==
    [stageName |-> "DeployProd",
     actions |-> << CodeBuildAction("DeployBackendProd", "deployBackendProject",
                                    {artifacts.source, artifacts.backendBuild, artifacts.iacSynth},
                                    {}, "prod", "backend", 1),
                    CodeBuildAction("DeployFrontendProd", "deployFrontendProject",
                                    {artifacts.source, artifacts.frontendBuild},
                                    {"FrontendDeployProd"}, "prod", "frontend", 2),
                    CodeBuildAction("HealthCheckProd", "healthCheckProject",
                                    {artifacts.source, "FrontendDeployProd"},
                                    {}, "prod", "none", 3) >>,
     onFailure |-> "none"]

\* Variant: the build stage declared ahead of the quality stage.
stagesBuildFirst ==
    <<SourceStage, UpdatePipelineStage, BuildStage, QualityStage, DeployDevStage,
      ManualApprovalStage, DeployProdStage>>

\* Variant: the approval declared after the prod deploy instead of before it.
stagesUngated ==
    <<SourceStage, UpdatePipelineStage, QualityStage, BuildStage, DeployDevStage,
      DeployProdStage, ManualApprovalStage>>

stages ==
    <<SourceStage, UpdatePipelineStage, QualityStage, BuildStage, DeployDevStage,
      ManualApprovalStage, DeployProdStage>>

\* Where each declared action sits.
Placements ==
    UNION {{[stage |-> i, action |-> stages[i].actions[j]] : j \in DOMAIN stages[i].actions} :
              i \in DOMAIN stages}

ActionNames == {p.action.actionName : p \in Placements}

\* The placement of every action, by name.
PlacementOf == [a \in ActionNames |-> CHOOSE p \in Placements : p.action.actionName = a]

Placement(a) == PlacementOf[a]

\* b is due before a: declared in an earlier stage, or in the same stage with
\* a lower runOrder.
Precedes(b, a) ==
    \/ Placement(b).stage < Placement(a).stage
    \/ /\ Placement(b).stage = Placement(a).stage
       /\ Placement(b).action.runOrder < Placement(a).action.runOrder

\* Variant: an action starts once everything due before it has finished,
\* failed or not.
StartableDespiteFailure(st, a) ==
    /\ st[a] = "idle"
    /\ \A b \in ActionNames : Precedes(b, a) => st[b] \in {"succeeded", "failed"}

\* The executor starts an action once everything due before it has succeeded.
Startable(st, a) ==
    /\ st[a] = "idle"
    /\ \A b \in ActionNames : Precedes(b, a) => st[b] = "succeeded"

NothingDeployed ==
    [dev  |-> [backend |-> 0, frontend |-> 0],
     prod |-> [backend |-> 0, frontend |-> 0]]

\* The pipeline right after the stack was created: no execution yet.
Created ==
    /\ execution = 0
    /\ actionState = [e \in 1..MaxExecutions |-> [a \in ActionNames |-> "idle"]]
    /\ approvals = {}
    /\ deployed = NothingDeployed


-----------------------------------------------------------------------------
(* deploy.sh: parameters, shell variables and the commands' effects *)

\* A positional parameter or environment variable that is not set.
Unset == "<unset>"

Arg1Values == {Unset, "", "dev"}

WithAssetsValues == {Unset, "", "true", "false", "TRUE"}

\* A directory infra/lambda/<name>/, with or without a package.json in it.
Dir(name, packageJson) == [name |-> name, packageJson |-> packageJson]

\* What infra/lambda/*/ expands to, in the order of the expansion.  With no
\* directory the pattern stays as it is and names no directory.
LambdaTrees ==
    {<< >>,
     <<Dir("suggest-improvements", FALSE)>>,
     <<Dir("continue-story", TRUE), Dir("suggest-improvements", FALSE)>>,
     <<Dir("continue-story", TRUE), Dir("suggest-improvements", TRUE)>>}

\* The commands of the loop body, lines 46 to 49, for the directory
\* infra/lambda/<name>/.
LoopCommand(line, name) ==
    CASE line = 46 -> "basename infra/lambda/" \o name \o "/"
      [] line = 47 -> "cd infra/lambda/" \o name \o "/"
      [] line = 48 -> "npm install --no-progress (in infra/lambda/" \o name \o "/)"
      [] line = 49 -> "cd - (from infra/lambda/" \o name \o "/)"

\* [ -d "$lambda_dir" ] && [ -f "$lambda_dir/package.json" ], for the
\* directories from the i-th on: the indices of those that pass.
WithPackageJson(tree, i) == {j \in i..Len(tree) : tree[j].packageJson}

\* ${value:-default}
OrDefault(value, default) == IF value \in {Unset, ""} THEN default ELSE value

\* What whoami prints.
User == "alice"

\* Variant: the script without `set -e`.
ErrExitOff == FALSE

\* `set -e`: a failing command whose exit status the script does not take up
\* itself ends the script.
ErrExit == TRUE

\* No secret is stored under the name.
NoSecret == [t |-> "absent"]

\* Exit codes of `aws secretsmanager get-secret-value`: it fails when there is
\* no such secret, and may fail for other reasons when there is one.
GetSecretValue(store) == IF store = NoSecret THEN {254} ELSE {0, 254}

\* Variant: the secret is written with the placeholder whether or not it
\* exists already.
CreateSecretOverwriting(store) ==
    {[exit |-> 0, store |-> PlaceholderSecret], [exit |-> 254, store |-> store]}

\* `aws secretsmanager create-secret --secret-string '{...PLACEHOLDER...}'`:
\* exit code and the stored value afterwards.  An existing name is refused.
CreateSecret(store) ==
    IF store # NoSecret
    THEN {[exit |-> 254, store |-> store]}
    ELSE {[exit |-> 0, store |-> PlaceholderSecret], [exit |-> 254, store |-> store]}

\* Variant: the frontend is built unless WITH_ASSETS is "false".
BuildsFrontendUnlessFalse(WITH_ASSETS) == WITH_ASSETS # "false"

\* [ "$WITH_ASSETS" = "true" ] before `npm run build`.
BuildsFrontend(WITH_ASSETS) == WITH_ASSETS = "true"

\* Variant: withAssets=false is passed only for WITH_ASSETS "false".
WithAssetsContextForFalseOnly(WITH_ASSETS) == IF WITH_ASSETS = "false" THEN "false" ELSE Unset

\* The withAssets context value `cdk deploy` is given.
WithAssetsContext(WITH_ASSETS) == IF WITH_ASSETS = "true" THEN Unset ELSE "false"

\* FrontendStack: this.node.tryGetContext("withAssets") !== "false"
withAssets(context) == context # "false"

\* Nothing provisioned yet; cdk is not installed on the host.
NothingProvisioned ==
    [cdk |-> FALSE, bootstrapped |-> FALSE, api |-> "absent",
     frontend |-> [state |-> "absent", withAssets |-> FALSE], bucket |-> "empty"]

\* Variant: deploying over a frontend stack that exists prunes the bucket
\* without uploading the bundle again.
CdkDeployPruning(c, context) ==
    LET api == [c EXCEPT !.api = "deployed"] IN
    {[exit |-> 1, cloud |-> c, uploaded |-> FALSE],
     [exit |-> 1, cloud |-> api, uploaded |-> FALSE],
     [exit |-> 0,
      cloud |-> [api EXCEPT !.frontend = [state |-> "deployed", withAssets |-> withAssets(context)],
                            !.bucket = IF c.frontend.state = "deployed" THEN "empty"
                                       ELSE IF withAssets(context) THEN "bundle" ELSE c.bucket],
      uploaded |-> withAssets(context) /\ c.frontend.state # "deployed"]}

\* `cdk deploy --all`: the API stack first, then the frontend stack, which
\* uploads the bundle when it is synthesized with assets.  The command may
\* fail before or between the two stacks.
CdkDeploy(c, context) ==
    LET api == [c EXCEPT !.api = "deployed"] IN
    {[exit |-> 1, cloud |-> c, uploaded |-> FALSE],
     [exit |-> 1, cloud |-> api, uploaded |-> FALSE],
     [exit |-> 0,
      cloud |-> [api EXCEPT !.frontend = [state |-> "deployed", withAssets |-> withAssets(context)],
                            !.bucket = IF withAssets(context) THEN "bundle" ELSE c.bucket],
      uploaded |-> withAssets(context)]}

\* What the DistributionId query prints: the id, or "None" or nothing when
\* the stack has no such output.
DistributionIds == {"E2EXAMPLE", "None", ""}

\* Variant: the cache is cleared whatever WITH_ASSETS is.
InvalidatesAlways(WITH_ASSETS, DISTRIBUTION_ID) ==
    DISTRIBUTION_ID # "None" /\ DISTRIBUTION_ID # ""

\* [ "$WITH_ASSETS" = "true" ] && [ "$DISTRIBUTION_ID" != "None" ] && [ -n "$DISTRIBUTION_ID" ]
Invalidates(WITH_ASSETS, DISTRIBUTION_ID) ==
    WITH_ASSETS = "true" /\ DISTRIBUTION_ID # "None" /\ DISTRIBUTION_ID # ""

NoArgs == [arg1 |-> Unset, WITH_ASSETS |-> Unset, tree |-> << >>]

NoShell ==
    [pc |-> "none", ENVIRONMENT |-> "", WITH_ASSETS |-> "", API_URL |-> "", FRONTEND_URL |-> "",
     DISTRIBUTION_ID |-> "", SECRETS_ARN |-> "", lambda_dir |-> 1, exit |-> -1,
     complete |-> FALSE, built |-> FALSE, uploaded |-> FALSE]

\* deploy.sh is not part of the behaviour.
NotDeploying ==
    /\ args = NoArgs
    /\ sh = NoShell
    /\ trail = << >>
    /\ cloud = NothingProvisioned
    /\ exits = << >>

-----------------------------------------------------------------------------
(* The CDK app: what the stacks of one environment are named.  A text whose *)
(* characters matter is a sequence of one-character strings.                *)

RECURSIVE Text(_)
\* The string spelled by a sequence of characters.
Text(chars) == IF chars = << >> THEN "" ELSE Head(chars) \o Text(Tail(chars))

UpperCase ==
    <<"A", "B", "C", "D", "E", "F", "G", "H", "I", "J", "K", "L", "M",
      "N", "O", "P", "Q", "R", "S", "T", "U", "V", "W", "X", "Y", "Z">>

LowerCase ==
    <<"a", "b", "c", "d", "e", "f", "g", "h", "i", "j", "k", "l", "m",
      "n", "o", "p", "q", "r", "s", "t", "u", "v", "w", "x", "y", "z">>

\* String.prototype.toLowerCase, on a sequence of characters.
toLowerCase(chars) ==
    [i \in DOMAIN chars |->
        IF \E k \in DOMAIN UpperCase : UpperCase[k] = chars[i]
        THEN LowerCase[CHOOSE k \in DOMAIN UpperCase : UpperCase[k] = chars[i]]
        ELSE chars[i]]

\* Environment names a deployment may be given.
EnvironmentNames ==
    {<<"d", "e", "v">>, <<"D", "e", "v">>, <<"D", "E", "V">>, <<"d", "e", "v", "2">>,
     <<"p", "r", "o", "d">>, <<"P", "r", "o", "d">>,
     <<"p", "r", "e", "v", "i", "e", "w", "-", "a", "l", "i", "c", "e">>,
     <<"p", "r", "e", "v", "i", "e", "w", "-", "A", "l", "i", "c", "e">>}

\* CDK_DEFAULT_ACCOUNT
account == "111122223333"

ApiIdPrefix == <<"S", "t", "o", "r", "y", "c", "l", "u", "n", "k", "A", "p", "i", "-">>

FrontendIdPrefix ==
    <<"S", "t", "o", "r", "y", "c", "l", "u", "n", "k", "F", "r", "o", "n", "t", "e", "n", "d", "-">>

AppSecretsSuffix == <<"/", "a", "p", "p", "-", "s", "e", "c", "r", "e", "t", "s">>

IsPrefix(p, t) == Len(p) <= Len(t) /\ SubSeq(t, 1, Len(p)) = p

Named(kind, name) == [kind |-> kind, name |-> name]

\* new ApiStack(app, id, { environment }): the names it gives, and the secret
\* names its execution role may read (`${appSecrets.secretArn}*`).
ApiStack(id, environment) ==
    [named |->
        {Named("stack", Text(id)),
         Named("logGroup", "/aws/apigateway/" \o Text(id)),
         Named("export", Text(id) \o "-ApiUrl"),
         Named("export", Text(id) \o "-ApiId"),
         Named("export", Text(id) \o "-SecretsArn")}
        \cup {Named("function", Text(id) \o "-" \o functionName) : functionName \in Functions}
        \cup {Named("logGroup", "/aws/lambda/" \o Text(id) \o "-" \o functionName) :
                functionName \in Functions}
        \cup {Named("export", Text(id) \o "-" \o functionName \o "-Arn") :
                functionName \in Functions},
     secretsAccess |-> environment \o AppSecretsSuffix]

\* new FrontendStack(app, id, ...): the names it gives.
FrontendStack(id) ==
    {Named("stack", Text(id)),
     Named("bucket", Text(toLowerCase(id)) \o "-" \o account),
     Named("export", Text(id) \o "-WebsiteURL"),
     Named("export", Text(id) \o "-BucketName"),
     Named("export", Text(id) \o "-DistributionId")}

\* bin/app.ts for one environment, with the secret deploy.sh creates for it.
App(environment) ==
    LET apiStack == ApiStack(ApiIdPrefix \o environment, environment) IN
    [environment |-> Text(environment),
     named |-> apiStack.named
                 \cup FrontendStack(FrontendIdPrefix \o environment)
                 \cup {Named("secret", Text(environment \o AppSecretsSuffix))},
     secret |-> environment \o AppSecretsSuffix,
     secretsAccess |-> apiStack.secretsAccess]

NotSynthesized == [environment |-> "", named |-> {}, secret |-> << >>, secretsAccess |-> << >>]

\* app.node.tryGetContext("pipelineOnly") and ("codeConnectionArn").
PipelineOnlyValues == {Unset, "true", "false", "TRUE"}

CodeConnectionArnValues ==
    {Unset, "", "arn:aws:codeconnections:us-east-1:111122223333:connection/example"}

Contexts == [pipelineOnly : PipelineOnlyValues, codeConnectionArn : CodeConnectionArnValues]

\* const pipelineOnly = app.node.tryGetContext("pipelineOnly") === "true"
pipelineOnly(context) == context.pipelineOnly = "true"

\* if (codeConnectionArn): undefined and "" are falsy.
codeConnectionArn(context) == context.codeConnectionArn \notin {Unset, ""}

Stack(type, id) == [type |-> type, id |-> id]

PipelineStackId == "StoryclunkPipelineStack"

\* The app with the per-environment stacks constructed in either mode.
StacksInEitherMode(context, environment) ==
    LET apiStack == Stack("ApiStack", Text(ApiIdPrefix \o environment))
        frontendStack == Stack("FrontendStack", Text(FrontendIdPrefix \o environment))
    IN  [stacks |-> {apiStack, frontendStack}
                      \cup (IF codeConnectionArn(context)
                            THEN {Stack("PipelineStack", PipelineStackId)}
                            ELSE {}),
         dependencies |-> {<<frontendStack, apiStack>>}]

\* bin/app.ts: the stacks the app constructs, and frontendStack.addDependency.
Stacks(context, environment) ==
    LET apiStack == Stack("ApiStack", Text(ApiIdPrefix \o environment))
        frontendStack == Stack("FrontendStack", Text(FrontendIdPrefix \o environment))
    IN  [stacks |-> (IF ~pipelineOnly(context) THEN {apiStack, frontendStack} ELSE {})
                      \cup (IF codeConnectionArn(context)
                            THEN {Stack("PipelineStack", PipelineStackId)}
                            ELSE {}),
         dependencies |-> IF ~pipelineOnly(context) THEN {<<frontendStack, apiStack>>} ELSE {}]

NotAssembled == [stacks |-> {Stack("none", "")}, dependencies |-> {}]

\* The CDK app is not part of the behaviour.
NotSynthesizing ==
    /\ environments = << >>
    /\ names = << >>
    /\ contexts = << >>
    /\ assembly = << >>

-----------------------------------------------------------------------------
(* bootstrap-cdk.sh *)

BuildRole == "arn:aws:iam::111122223333:role/StoryclunkBuildRole"
DeployRole == "arn:aws:iam::111122223333:role/StoryclunkDeployRole"

\* $1, $2 and $3 as the operator may give them.
StackNameArgs == {Unset, "", PipelineStackId, "NoSuchStack"}
BuildRoleArgs == {Unset, "", "None", BuildRole}
DeployRoleArgs == {Unset, "", "None", DeployRole}

\* $n of a positional parameter that may be unset.
Positional(arg) == IF arg = Unset THEN "" ELSE arg

\* The pipeline stack's Outputs: none at all, or the two role outputs, each
\* present or not ("" stands for an output the stack does not have).
NoOutputs == [none |-> TRUE]

StackOutputs ==
    {NoOutputs} \cup [BuildRoleArn : {"", BuildRole}, DeployRoleArn : {"", DeployRole}]

NoStack == [absent |-> TRUE]

\* CDKToolkit with the principals its roles trust.
Toolkits == {NoStack, [trust |-> {}], [trust |-> {DeployRole}]}

\* aws cloudformation describe-stacks --stack-name $PIPELINE_STACK_NAME
StackExists(account_, name) == name = PipelineStackId /\ account_.pipeline # NoStack

\* --query 'Stacks[0].Outputs[?OutputKey==`key`].OutputValue' --output text
QueryOutput(outputs, key) ==
    IF outputs = NoOutputs THEN "None"
    ELSE outputs[key]

\* Variant: only an empty ARN counts as not found.
RoleFoundUnlessEmpty(arn) == arn # ""

\* [ -z "$ARN" ] || [ "$ARN" = "None" ], negated
RoleFound(arn) == arn # "" /\ arn # "None"

\* TRUST_ARGS
TrustArgs(DEPLOY_ROLE_ARN, BUILD_ROLE_ARN) ==
    <<"--trust", DEPLOY_ROLE_ARN>>
        \o (IF BUILD_ROLE_ARN # "" THEN <<"--trust", BUILD_ROLE_ARN>> ELSE << >>)

\* The principals `cdk bootstrap ... $TRUST_ARGS` makes the toolkit trust.
Trusted(TRUST_ARGS) == {TRUST_ARGS[i] : i \in {j \in DOMAIN TRUST_ARGS : j % 2 = 0}}

NoBootstrapArgs == [stack |-> Unset, build |-> Unset, deploy |-> Unset]

NoBootstrap ==
    [pc |-> "none", PIPELINE_STACK_NAME |-> "", BUILD_ROLE_ARN |-> "", DEPLOY_ROLE_ARN |-> "",
     TRUST_ARGS |-> << >>, exit |-> -1, warned |-> FALSE, bootstrapped |-> FALSE,
     complete |-> FALSE]

\* bootstrap-cdk.sh is not part of the behaviour.
NotBootstrapping ==
    /\ bootstrapArgs = NoBootstrapArgs
    /\ bootstrap = NoBootstrap
    /\ stacksInAccount = [pipeline |-> NoStack, toolkit |-> NoStack]

-----------------------------------------------------------------------------
(* The frontend stack's distribution.  A path is the sequence of its
   segments: << >> is "/", <<"api", "continue-story">> is
   "/api/continue-story". *)

\* additionalBehaviors: { "/api/*": { origin: apiOrigin, ... } }
ApiRoute(path) == Len(path) >= 2 /\ path[1] = "api"

\* errorResponses of the distribution.
errorResponses ==
    {[httpStatus |-> 403, responseHttpStatus |-> 200, responsePagePath |-> <<"index.html">>],
     [httpStatus |-> 404, responseHttpStatus |-> 200, responsePagePath |-> <<"index.html">>]}

\* The entry document as the bucket origin serves it.
EntryDocument ==
    [statusCode |-> 200, headers |-> [x \in {"Content-Type"} |-> "text/html"],
     body |-> "<!doctype html><div id=\"root\"></div>"]

\* What the distribution hands the viewer for an origin's response: a status
\* listed in errorResponses is replaced by the response page with the listed
\* status, whichever behaviour the request matched, provided the page can be
\* fetched; otherwise the origin's response passes through.
Distribution(originResponse, entryDocumentStored) ==
    IF /\ \E e \in errorResponses : e.httpStatus = originResponse.statusCode
       /\ entryDocumentStored
    THEN LET e == CHOOSE e \in errorResponses : e.httpStatus = originResponse.statusCode
         IN  [EntryDocument EXCEPT !.statusCode = e.responseHttpStatus]
    ELSE originResponse

\* Requests a browser sends, by path.
ViewerPaths ==
    {<< >>, <<"index.html">>, <<"favicon.ico">>, <<"assets", "index.js">>, <<"stories", "42">>,
     <<"api", "continue-story">>, <<"api", "suggest-improvements">>}


\* Answers of the bucket origin: the object, or an error for a key it does
\* not hold.
BucketResponses ==
    {EntryDocument,
     [statusCode |-> 403, headers |-> [x \in {"Content-Type"} |-> "application/xml"],
      body |-> "<Error><Code>AccessDenied</Code></Error>"],
     [statusCode |-> 404, headers |-> [x \in {"Content-Type"} |-> "application/xml"],
      body |-> "<Error><Code>NoSuchKey</Code></Error>"]}

\* The answers of the origin a path is routed to: the bucket, or the handler
\* behind the route (the API surface passes its responses on as they are).
OriginResponses(path) ==
    IF ApiRoute(path) THEN HandlerResponses(path[2]) ELSE BucketResponses

NoRequest == [path |-> << >>, response |-> NoResponse, entryDocumentStored |-> FALSE]

\* The distribution is not part of the behaviour.
NotBrowsing ==
    /\ origin = NoRequest
    /\ viewer = NoResponse

-----------------------------------------------------------------------------
(* State machine *)

NoEvent == [httpMethod |-> "none", body |-> Undefined]
NoInference == [ok |-> FALSE, error |-> Err("", "")]
NoError == [origin |-> "none", error |-> Err("", "")]

Init ==
    /\ runtime \in Runtimes
    /\ fn \in Functions
    /\ pc = "idle"
    /\ event = NoEvent
    /\ calls = << >>
    /\ outbound = NoCommand
    /\ fetched = NoFetch
    /\ inferred = NoInference
    /\ caught = NoError
    /\ response = NoResponse
    /\ secretsCache = Null
    /\ secretStore = PlaceholderSecret
    /\ storeReads = 0
    /\ Created
    /\ NotDeploying
    /\ NotSynthesizing
    /\ NotBootstrapping
    /\ NotBrowsing

\* Carry out what the handler code decided to do next.
Proceed(next) ==
    CASE next.kind = "return" ->
            /\ pc' = "done"
            /\ response' = next.response
            /\ caught' = [origin |-> next.origin, error |-> next.caught]
            /\ UNCHANGED <<calls, outbound, storeReads>>
      [] next.kind = "send" ->
            /\ pc' = "inference"
            /\ calls' = Append(calls, "inference")
            /\ outbound' = next.command
            /\ UNCHANGED <<response, caught, storeReads>>
      [] next.kind = "getSecret" ->
            /\ pc' = "secrets"
            /\ calls' = Append(calls, "secrets")
            /\ storeReads' = IF storeReads < MaxStoreReads THEN storeReads + 1 ELSE storeReads
            /\ UNCHANGED <<response, caught, outbound>>
      [] next.kind = "query" ->
            /\ pc' = "datastore"
            /\ calls' = Append(calls, "datastore")
            /\ UNCHANGED <<response, caught, outbound, storeReads>>

\* The platform invokes continue-story with an event.
InvokeContinueStory ==
    /\ fn = "continue-story"
    /\ pc = "idle"
    /\ \E ev \in Events(fn) :
         /\ event' = ev
         /\ Proceed(ContinueStory(ev))
    /\ UNCHANGED <<runtime, fn, fetched, inferred, secretsCache, secretStore>>
    /\ UNCHANGED outsideHandlers

\* The platform invokes suggest-improvements with an event.
InvokeSuggestImprovements ==
    /\ fn = "suggest-improvements"
    /\ pc = "idle"
    /\ \E ev \in Events(fn) :
         /\ event' = ev
         /\ Proceed(SuggestImprovements(ev, secretsCache))
    /\ UNCHANGED <<runtime, fn, fetched, inferred, secretsCache, secretStore>>
    /\ UNCHANGED outsideHandlers

\* The secret store answers GetSecretValue.
SecretStoreAnswers ==
    /\ pc = "secrets"
    /\ \E outcome \in {Throw(e) : e \in SecretStoreErrors} \cup {Ok(secretStore)} :
         LET after == AfterSecretFetch(outcome, secretsCache) IN
         /\ secretsCache' = after.cache
         /\ Proceed(after.next)
    /\ UNCHANGED <<runtime, fn, event, fetched, inferred, secretStore>>
    /\ UNCHANGED outsideHandlers

\* The datastore answers the segment read.
DatastoreAnswer ==
    /\ pc = "datastore"
    /\ \E answer \in DatastoreAnswers(Get(JSONparse(event.body).value, "segmentId")) :
         /\ fetched' = answer
         /\ Proceed(AfterDatastore(answer))
    /\ UNCHANGED <<runtime, fn, event, inferred, secretsCache, secretStore>>
    /\ UNCHANGED outsideHandlers

\* The inference service answers InvokeModel.
InferenceAnswers ==
    /\ pc = "inference"
    /\ \E outcome \in InferenceOutcomes :
         LET after == AfterInference(outcome,
                         IF fn = "continue-story" THEN "continuation" ELSE "suggestions") IN
         /\ inferred' = outcome
         /\ pc' = "done"
         /\ response' = after.response
         /\ caught' = [origin |-> after.origin, error |-> after.caught]
    /\ UNCHANGED <<runtime, fn, event, calls, outbound, fetched, secretsCache, secretStore, storeReads>>
    /\ UNCHANGED outsideHandlers

\* The response is handed back; the execution context waits for the next event.
Complete ==
    /\ pc = "done"
    /\ pc' = "idle"
    /\ event' = NoEvent
    /\ calls' = << >>
    /\ outbound' = NoCommand
    /\ fetched' = NoFetch
    /\ inferred' = NoInference
    /\ caught' = NoError
    /\ response' = NoResponse
    /\ UNCHANGED <<runtime, fn, secretsCache, secretStore, storeReads>>
    /\ UNCHANGED outsideHandlers

\* The operator stores a new value under SECRETS_ARN.
RotateSecret ==
    /\ fn = "suggest-improvements"
    /\ secretStore # NoSecret
    /\ \E s \in SecretStrings \ {secretStore} : secretStore' = s
    /\ UNCHANGED <<runtime, fn, pc, event, calls, outbound, fetched, inferred, caught, response, secretsCache,
                   storeReads>>
    /\ UNCHANGED outsideHandlers

Next ==
    \/ InvokeContinueStory
    \/ InvokeSuggestImprovements
    \/ SecretStoreAnswers
    \/ DatastoreAnswer
    \/ InferenceAnswers
    \/ Complete
    \/ RotateSecret

Spec == Init /\ [][Next]_vars

TypeOK ==
    /\ runtime \in Runtimes
    /\ fn \in Functions
    /\ pc \in {"idle", "secrets", "datastore", "inference", "done"}
    /\ response.statusCode \in {0, 200, 400, 404, 429, 500}
    /\ storeReads \in 0..MaxStoreReads

-----------------------------------------------------------------------------
(* The pipeline executor applied to the declared stages.  Every push starts *)
(* an execution (triggerOnPush; the pipeline is given no executionMode, so   *)
(* the service's mode for a V2 pipeline applies): executions overlap, a      *)
(* stage holds one execution at a time, an execution that has passed a stage *)
(* waits for the next one while it is held, and a newer execution arriving   *)
(* at the same point supersedes the one waiting there.                       *)

Executions == 1..execution

RunningIn(st) == \E a \in ActionNames : st[a] = "running"

Halted(st) == \E a \in ActionNames : st[a] = "failed"

\* The last stage the execution has begun (0: none).
StageReached(st) ==
    LET begun == {Placement(a).stage : a \in {b \in ActionNames : st[b] # "idle"}}
    IN  IF begun = {} THEN 0 ELSE CHOOSE k \in begun : \A j \in begun : j <= k

\* The number of stages the execution has passed: all their actions succeeded.
Passed(st) ==
    Cardinality({k \in DOMAIN stages :
                   \A a \in ActionNames : Placement(a).stage <= k => st[a] = "succeeded"})

\* The execution is in stage k: it has begun it and is neither through with
\* it nor stopped in it.
Holds(st, k) ==
    /\ k = StageReached(st)
    /\ Passed(st) < k
    /\ RunningIn(st) \/ ~Halted(st)

\* The execution stands between two stages (or before the first).
Waiting(st) == Passed(st) = StageReached(st) /\ Passed(st) < Len(stages)

\* A newer execution has come as far as the waiting execution e.
Superseded(e) ==
    /\ Waiting(actionState[e])
    /\ \E f \in Executions : f > e /\ Passed(actionState[f]) >= Passed(actionState[e])

\* The failed actions the executor starts again: those of a stage that
\* declares onFailure RETRY.
Retried(st) ==
    {a \in ActionNames : st[a] = "failed" /\ stages[Placement(a).stage].onFailure = "RETRY"}

\* The latest other execution that has passed stage k (0: none).
LastThrough(e, k) ==
    LET through == {f \in Executions \ {e} :
                      \A a \in ActionNames : Placement(a).stage = k => actionState[f][a] = "succeeded"}
    IN  IF through = {} THEN 0 ELSE CHOOSE f \in through : \A g \in through : g <= f

\* What is deployed once an action of stage k has failed in execution e.  A
\* stage that declares onFailure ROLLBACK is run again for the execution that
\* last passed it, so its deploy actions put that revision back; any other
\* stage leaves what is deployed as it is.
RolledBack(e, k) ==
    IF stages[k].onFailure # "ROLLBACK" \/ LastThrough(e, k) = 0
    THEN deployed
    ELSE [env \in {"dev", "prod"} |->
            [part \in {"backend", "frontend"} |->
               IF \E a \in ActionNames : /\ Placement(a).stage = k
                                          /\ Placement(a).action.environment = env
                                          /\ Placement(a).action.deploys = part
               THEN LastThrough(e, k)
               ELSE deployed[env][part]]]

\* The actions of execution e the executor starts next: one run-order group
\* of one stage, and what the stage's onFailure has it start again.
NextGroup(e) ==
    {a \in ActionNames : Startable(actionState[e], a)} \cup Retried(actionState[e])

\* The executor can move execution e on: into the next run-order group of
\* its stage, or into the next stage when no other execution holds it.
Enterable(e) ==
    /\ NextGroup(e) # {}
    /\ ~Superseded(e)
    /\ \A a \in NextGroup(e), f \in Executions \ {e} : ~Holds(actionState[f], Placement(a).stage)

\* The executor has moved every execution as far as it can; it does so
\* before anything else happens.
Settled == \A e \in Executions : ~Enterable(e)

\* A push to the branch (triggerOnPush) starts an execution, which waits
\* for the Source stage.
Trigger ==
    /\ execution < MaxExecutions
    /\ Settled
    /\ execution' = execution + 1
    /\ UNCHANGED <<actionState, approvals, deployed>>
    /\ UNCHANGED outsidePipeline

\* The executor starts the next run-order group of an execution.
StartActions ==
    /\ \E e \in Executions :
         /\ Enterable(e)
         /\ actionState' = [actionState EXCEPT ![e] =
                               [a \in ActionNames |-> IF a \in NextGroup(e) THEN "running" ELSE @[a]]]
    /\ UNCHANGED <<execution, approvals, deployed>>
    /\ UNCHANGED outsidePipeline

\* A source or build action ends successfully; a deploy action has then
\* deployed its execution's revision to its environment.
ActionSucceeds ==
    /\ Settled
    /\ \E e \in Executions, a \in ActionNames :
         LET action == Placement(a).action IN
         /\ actionState[e][a] = "running"
         /\ action.category # "Approval"
         /\ actionState' = [actionState EXCEPT ![e][a] = "succeeded"]
         /\ deployed' = IF action.deploys = "none" THEN deployed
                        ELSE [deployed EXCEPT ![action.environment][action.deploys] = e]
    /\ UNCHANGED <<execution, approvals>>
    /\ UNCHANGED outsidePipeline

\* A source or build action fails; what follows for the execution and for
\* what is deployed is what the action's stage declares as onFailure.
ActionFails ==
    /\ Settled
    /\ \E e \in Executions, a \in ActionNames :
         /\ actionState[e][a] = "running"
         /\ Placement(a).action.category # "Approval"
         /\ actionState' = [actionState EXCEPT ![e][a] = "failed"]
         /\ deployed' = RolledBack(e, Placement(a).stage)
    /\ UNCHANGED <<execution, approvals>>
    /\ UNCHANGED outsidePipeline

\* The reviewer approves the pending manual approval of an execution.
Approve ==
    /\ Settled
    /\ \E e \in Executions, a \in ActionNames :
         /\ actionState[e][a] = "running"
         /\ Placement(a).action.category = "Approval"
         /\ actionState' = [actionState EXCEPT ![e][a] = "succeeded"]
         /\ approvals' = approvals \cup {e}
    /\ UNCHANGED <<execution, deployed>>
    /\ UNCHANGED outsidePipeline

\* The reviewer rejects the pending manual approval (or it times out).
Reject ==
    /\ Settled
    /\ \E e \in Executions, a \in ActionNames :
         /\ actionState[e][a] = "running"
         /\ Placement(a).action.category = "Approval"
         /\ actionState' = [actionState EXCEPT ![e][a] = "failed"]
    /\ UNCHANGED <<execution, approvals, deployed>>
    /\ UNCHANGED outsidePipeline

InitPipeline == runtime = LatestRuntime /\ fn = "continue-story" /\ Init

NextPipeline ==
    \/ Trigger
    \/ StartActions
    \/ ActionSucceeds
    \/ ActionFails
    \/ Approve
    \/ Reject

SpecPipeline == InitPipeline /\ [][NextPipeline]_vars

TypeOKPipeline ==
    /\ execution \in 0..MaxExecutions
    /\ actionState \in [1..MaxExecutions -> [ActionNames -> {"idle", "running", "succeeded", "failed"}]]
    /\ \A e \in 1..MaxExecutions : e > execution => ~\E a \in ActionNames : actionState[e][a] # "idle"
    /\ \A k \in DOMAIN stages : Cardinality({e \in Executions : Holds(actionState[e], k)}) <= 1
    /\ approvals \subseteq 1..MaxExecutions
    /\ \A e \in {"dev", "prod"}, part \in {"backend", "frontend"} :
         deployed[e][part] \in 0..MaxExecutions

-----------------------------------------------------------------------------
(* deploy.sh, one command at a time.  Every run of a behaviour is given the *)
(* same $1 and WITH_ASSETS.                                                 *)

\* A command was run.  exempt: its exit status does not reach `set -e` (the
\* command is the condition of an `if`, the left side of `||`, or a
\* substitution inside the argument of another command).
Logged(line, command, code, exempt) ==
    Append(trail, [line |-> line, command |-> command, exit |-> code, exempt |-> exempt])

\* The shell after a command whose exit status reaches `set -e`: the script
\* ends with the command's code when it failed, and goes on at next otherwise.
After(code, next) ==
    IF code # 0 /\ ErrExit
    THEN [sh EXCEPT !.pc = "exited", !.exit = code]
    ELSE [sh EXCEPT !.pc = next]

\* The operator runs the script (again), with WITH_ASSETS as the environment
\* holds it.  With $1 given, line 6 runs no command and the default of line 8
\* is applied on the way to the first command; without it, whoami comes first.
StartRun ==
    /\ \/ sh.pc = "none"
       \/ sh.pc = "exited" /\ Len(exits) + 1 < MaxRuns
    /\ exits' = IF sh.pc = "exited" THEN Append(exits, sh.exit) ELSE exits
    /\ trail' = << >>
    /\ sh' = IF args.arg1 \in {Unset, ""}
             THEN [NoShell EXCEPT !.pc = "whoami", !.WITH_ASSETS = args.WITH_ASSETS]
             ELSE [NoShell EXCEPT !.pc = "sts", !.ENVIRONMENT = args.arg1,
                                  !.WITH_ASSETS = OrDefault(args.WITH_ASSETS, "true")]
    /\ UNCHANGED <<args, cloud, secretStore>>
    /\ UNCHANGED outsideDeploy

\* ENVIRONMENT="${1:-preview-$(whoami)}" when $1 is unset or empty, and, when
\* the script goes on, WITH_ASSETS="${WITH_ASSETS:-true}" of line 8.  A run
\* that whoami ends never reaches line 8: WITH_ASSETS stays as it was given.
Whoami ==
    /\ sh.pc = "whoami"
    /\ \E code \in {0, 1} :
         /\ trail' = Logged(6, "whoami", code, FALSE)
         /\ sh' = [After(code, "sts") EXCEPT
                     !.ENVIRONMENT = IF code = 0 THEN "preview-" \o User ELSE "preview-",
                     !.WITH_ASSETS = IF After(code, "sts").pc = "exited"
                                     THEN @ ELSE OrDefault(@, "true")]
    /\ UNCHANGED <<args, cloud, exits, secretStore>>
    /\ UNCHANGED outsideDeploy

\* if ! aws sts get-caller-identity; then echo ...; exit 1; fi
CheckIdentity ==
    /\ sh.pc = "sts"
    /\ \E code \in {0, 255} :
         /\ trail' = Logged(14, "aws sts get-caller-identity", code, TRUE)
         /\ sh' = IF code # 0 THEN [sh EXCEPT !.pc = "exited", !.exit = 1]
                  ELSE [sh EXCEPT !.pc = "secret-check"]
    /\ UNCHANGED <<args, cloud, exits, secretStore>>
    /\ UNCHANGED outsideDeploy

\* if aws secretsmanager get-secret-value --secret-id "$SECRET_NAME"; then ... else ...
CheckSecret ==
    /\ sh.pc = "secret-check"
    /\ \E code \in GetSecretValue(secretStore) :
         /\ trail' = Logged(23, "aws secretsmanager get-secret-value", code, TRUE)
         /\ sh' = [sh EXCEPT !.pc = IF code = 0 THEN "cdk-check" ELSE "secret-create"]
    /\ UNCHANGED <<args, cloud, exits, secretStore>>
    /\ UNCHANGED outsideDeploy

\* aws secretsmanager create-secret --name "$SECRET_NAME" --secret-string '{...}'
CreateTheSecret ==
    /\ sh.pc = "secret-create"
    /\ \E result \in CreateSecret(secretStore) :
         /\ trail' = Logged(27, "aws secretsmanager create-secret", result.exit, FALSE)
         /\ sh' = After(result.exit, "cdk-check")
         /\ secretStore' = result.store
    /\ UNCHANGED <<args, cloud, exits>>
    /\ UNCHANGED outsideDeploy

\* if ! command -v cdk; then ... fi
CheckCdk ==
    /\ sh.pc = "cdk-check"
    /\ trail' = Logged(37, "command -v cdk", IF cloud.cdk THEN 0 ELSE 1, TRUE)
    /\ sh' = [sh EXCEPT !.pc = IF cloud.cdk THEN "lambda-deps" ELSE "cdk-install"]
    /\ UNCHANGED <<args, cloud, exits, secretStore>>
    /\ UNCHANGED outsideDeploy

\* npm install --no-progress -g aws-cdk
InstallCdk ==
    /\ sh.pc = "cdk-install"
    /\ \E code \in {0, 1} :
         /\ trail' = Logged(39, "npm install -g aws-cdk", code, FALSE)
         /\ sh' = After(code, "lambda-deps")
         /\ cloud' = IF code = 0 THEN [cloud EXCEPT !.cdk = TRUE] ELSE cloud
    /\ UNCHANGED <<args, exits, secretStore>>
    /\ UNCHANGED outsideDeploy

\* for lambda_dir in infra/lambda/*/; do
\*   if [ -d "$lambda_dir" ] && [ -f "$lambda_dir/package.json" ]; then
\*     echo "Installing dependencies for $(basename "$lambda_dir")..."
\* The loop passes over the directories without a package.json and, at the
\* next one that has it, runs basename inside the argument of echo: the echo
\* is what `set -e` sees, so a failing basename does not end the script.
AnnounceLambda ==
    /\ sh.pc = "lambda-deps"
    /\ WithPackageJson(args.tree, sh.lambda_dir) # {}
    /\ LET i == CHOOSE j \in WithPackageJson(args.tree, sh.lambda_dir) :
                   \A k \in WithPackageJson(args.tree, sh.lambda_dir) : j <= k
       IN  \E code \in {0, 1} :
             /\ trail' = Logged(46, LoopCommand(46, args.tree[i].name), code, TRUE)
             /\ sh' = [sh EXCEPT !.pc = "lambda-cd", !.lambda_dir = i]
    /\ UNCHANGED <<args, cloud, exits, secretStore>>
    /\ UNCHANGED outsideDeploy

\*     cd "$lambda_dir"
EnterLambdaDir ==
    /\ sh.pc = "lambda-cd"
    /\ \E code \in {0, 1} :
         /\ trail' = Logged(47, LoopCommand(47, args.tree[sh.lambda_dir].name), code, FALSE)
         /\ sh' = After(code, "lambda-install")
    /\ UNCHANGED <<args, cloud, exits, secretStore>>
    /\ UNCHANGED outsideDeploy

\*     npm install --no-progress
InstallLambdaDependencies ==
    /\ sh.pc = "lambda-install"
    /\ \E code \in {0, 1} :
         /\ trail' = Logged(48, LoopCommand(48, args.tree[sh.lambda_dir].name), code, FALSE)
         /\ sh' = After(code, "lambda-back")
    /\ UNCHANGED <<args, cloud, exits, secretStore>>
    /\ UNCHANGED outsideDeploy

\*     cd - > /dev/null
\*   fi
\* done
LeaveLambdaDir ==
    /\ sh.pc = "lambda-back"
    /\ \E code \in {0, 1} :
         /\ trail' = Logged(49, LoopCommand(49, args.tree[sh.lambda_dir].name), code, FALSE)
         /\ sh' = [After(code, "lambda-deps") EXCEPT !.lambda_dir = @ + 1]
    /\ UNCHANGED <<args, cloud, exits, secretStore>>
    /\ UNCHANGED outsideDeploy

\* The loop ends: no directory that is left has a package.json, and no
\* command runs.
LeaveLambdaLoop ==
    /\ sh.pc = "lambda-deps"
    /\ WithPackageJson(args.tree, sh.lambda_dir) = {}
    /\ sh' = [sh EXCEPT !.pc = IF BuildsFrontend(sh.WITH_ASSETS)
                                THEN "frontend-build" ELSE "infra-cd"]
    /\ UNCHANGED <<args, trail, cloud, exits, secretStore>>
    /\ UNCHANGED outsideDeploy

\* npm run build, when WITH_ASSETS is "true"
BuildFrontend ==
    /\ sh.pc = "frontend-build"
    /\ \E code \in {0, 1} :
         /\ trail' = Logged(56, "npm run build", code, FALSE)
         /\ sh' = [After(code, "infra-cd") EXCEPT !.built = (code = 0)]
    /\ UNCHANGED <<args, cloud, exits, secretStore>>
    /\ UNCHANGED outsideDeploy

\* cd infra
EnterInfra ==
    /\ sh.pc = "infra-cd"
    /\ \E code \in {0, 1} :
         /\ trail' = Logged(63, "cd infra", code, FALSE)
         /\ sh' = After(code, "infra-install")
    /\ UNCHANGED <<args, cloud, exits, secretStore>>
    /\ UNCHANGED outsideDeploy

\* npm install --no-progress, in infra
InstallCdkDependencies ==
    /\ sh.pc = "infra-install"
    /\ \E code \in {0, 1} :
         /\ trail' = Logged(64, "npm install (infra)", code, FALSE)
         /\ sh' = After(code, "infra-build")
    /\ UNCHANGED <<args, cloud, exits, secretStore>>
    /\ UNCHANGED outsideDeploy

\* npm run build, in infra
BuildInfra ==
    /\ sh.pc = "infra-build"
    /\ \E code \in {0, 1} :
         /\ trail' = Logged(65, "npm run build (infra)", code, FALSE)
         /\ sh' = After(code, "bootstrap")
    /\ UNCHANGED <<args, cloud, exits, secretStore>>
    /\ UNCHANGED outsideDeploy

\* cdk bootstrap --progress events
Bootstrap ==
    /\ sh.pc = "bootstrap"
    /\ \E code \in {0, 1} :
         /\ trail' = Logged(69, "cdk bootstrap", code, FALSE)
         /\ sh' = After(code, "deploy")
         /\ cloud' = IF code = 0 THEN [cloud EXCEPT !.bootstrapped = TRUE] ELSE cloud
    /\ UNCHANGED <<args, exits, secretStore>>
    /\ UNCHANGED outsideDeploy

\* cdk deploy --all --context environment=$ENVIRONMENT [--context withAssets=false]
Deploy ==
    /\ sh.pc = "deploy"
    /\ \E result \in CdkDeploy(cloud, WithAssetsContext(sh.WITH_ASSETS)) :
         /\ trail' = Logged(IF sh.WITH_ASSETS = "true" THEN 74 ELSE 76, "cdk deploy --all",
                            result.exit, FALSE)
         /\ sh' = [After(result.exit, "api-url") EXCEPT !.uploaded = result.uploaded]
         /\ cloud' = result.cloud
    /\ UNCHANGED <<args, exits, secretStore>>
    /\ UNCHANGED outsideDeploy

\* API_URL=$(aws cloudformation describe-stacks ... 2>/dev/null || echo "N/A")
GetApiUrl ==
    /\ sh.pc = "api-url"
    /\ \E code \in {0, 255} :
         /\ trail' = Logged(80, "aws cloudformation describe-stacks (ApiUrl)", code, TRUE)
         /\ sh' = [sh EXCEPT !.pc = "frontend-url",
                             !.API_URL = IF code = 0 THEN "https://api.example" ELSE "N/A"]
    /\ UNCHANGED <<args, cloud, exits, secretStore>>
    /\ UNCHANGED outsideDeploy

\* FRONTEND_URL=$(aws cloudformation describe-stacks ...)
GetFrontendUrl ==
    /\ sh.pc = "frontend-url"
    /\ \E code \in {0, 255} :
         /\ trail' = Logged(85, "aws cloudformation describe-stacks (WebsiteURL)", code, FALSE)
         /\ sh' = [After(code, "distribution-id") EXCEPT
                     !.FRONTEND_URL = IF code = 0 THEN "https://d111.cloudfront.net" ELSE ""]
    /\ UNCHANGED <<args, cloud, exits, secretStore>>
    /\ UNCHANGED outsideDeploy

\* DISTRIBUTION_ID=$(aws cloudformation describe-stacks ...)
GetDistributionId ==
    /\ sh.pc = "distribution-id"
    /\ \E code \in {0, 255}, id \in DistributionIds :
         /\ code # 0 => id = ""
         /\ trail' = Logged(90, "aws cloudformation describe-stacks (DistributionId)", code, FALSE)
         /\ sh' = [After(code, "secrets-arn") EXCEPT !.DISTRIBUTION_ID = id]
    /\ UNCHANGED <<args, cloud, exits, secretStore>>
    /\ UNCHANGED outsideDeploy

\* SECRETS_ARN=$(aws cloudformation describe-stacks ... 2>/dev/null || echo "N/A")
GetSecretsArn ==
    /\ sh.pc = "secrets-arn"
    /\ \E code \in {0, 255} :
         /\ trail' = Logged(95, "aws cloudformation describe-stacks (SecretsArn)", code, TRUE)
         /\ sh' = [sh EXCEPT
                     !.pc = IF Invalidates(sh.WITH_ASSETS, sh.DISTRIBUTION_ID)
                            THEN "invalidate" ELSE "finish",
                     !.SECRETS_ARN = IF code = 0 THEN "arn:aws:secretsmanager:secret" ELSE "N/A"]
    /\ UNCHANGED <<args, cloud, exits, secretStore>>
    /\ UNCHANGED outsideDeploy

\* aws cloudfront create-invalidation --distribution-id "$DISTRIBUTION_ID" --paths "/*"
Invalidate ==
    /\ sh.pc = "invalidate"
    /\ \E code \in {0, 1} :
         /\ trail' = Logged(103, "aws cloudfront create-invalidation", code, FALSE)
         /\ sh' = After(code, "finish")
    /\ UNCHANGED <<args, cloud, exits, secretStore>>
    /\ UNCHANGED outsideDeploy

\* echo "Deployment complete for environment: $ENVIRONMENT!" and the closing
\* messages; the script ends with code 0.
Finish ==
    /\ sh.pc = "finish"
    /\ sh' = [sh EXCEPT !.pc = "exited", !.exit = 0, !.complete = TRUE]
    /\ UNCHANGED <<args, trail, cloud, exits, secretStore>>
    /\ UNCHANGED outsideDeploy

InitDeploy ==
    /\ runtime = LatestRuntime
    /\ fn = "suggest-improvements"
    /\ pc = "idle"
    /\ event = NoEvent
    /\ calls = << >>
    /\ outbound = NoCommand
    /\ fetched = NoFetch
    /\ inferred = NoInference
    /\ caught = NoError
    /\ response = NoResponse
    /\ secretsCache = Null
    /\ storeReads = 0
    /\ Created
    /\ secretStore = NoSecret
    /\ args \in [arg1 : Arg1Values, WITH_ASSETS : WithAssetsValues, tree : LambdaTrees]
    /\ sh = NoShell
    /\ trail = << >>
    /\ cloud = NothingProvisioned
    /\ exits = << >>
    /\ NotSynthesizing
    /\ NotBootstrapping
    /\ NotBrowsing

NextDeploy ==
    \/ StartRun
    \/ Whoami
    \/ CheckIdentity
    \/ CheckSecret
    \/ CreateTheSecret
    \/ CheckCdk
    \/ InstallCdk
    \/ AnnounceLambda
    \/ EnterLambdaDir
    \/ InstallLambdaDependencies
    \/ LeaveLambdaDir
    \/ LeaveLambdaLoop
    \/ BuildFrontend
    \/ EnterInfra
    \/ InstallCdkDependencies
    \/ BuildInfra
    \/ Bootstrap
    \/ Deploy
    \/ GetApiUrl
    \/ GetFrontendUrl
    \/ GetDistributionId
    \/ GetSecretsArn
    \/ Invalidate
    \/ Finish
    \/ RotateSecret

SpecDeploy == InitDeploy /\ [][NextDeploy]_vars

TypeOKDeploy ==
    /\ sh.pc \in {"none", "whoami", "sts", "secret-check", "secret-create", "cdk-check",
                  "cdk-install", "lambda-deps", "lambda-cd", "lambda-install", "lambda-back",
                  "frontend-build", "infra-cd", "infra-install", "infra-build",
                  "bootstrap", "deploy", "api-url", "frontend-url", "distribution-id",
                  "secrets-arn", "invalidate", "finish", "exited"}
    /\ secretStore \in SecretStrings \cup {NoSecret}
    /\ Len(exits) < MaxRuns
    /\ sh.pc = "exited" <=> sh.exit # -1

-----------------------------------------------------------------------------
(* Two deployments of the CDK app in one account, each for its environment *)

\* `cdk deploy --context environment=...` synthesizes one deployment.
Synthesize ==
    /\ \E i \in DOMAIN environments :
         /\ assembly[i] = NotAssembled
         /\ assembly' = [assembly EXCEPT ![i] = Stacks(contexts[i], environments[i])]
         /\ names' = [names EXCEPT ![i] = IF pipelineOnly(contexts[i])
                                          THEN NotSynthesized
                                          ELSE App(environments[i])]
    /\ UNCHANGED <<environments, contexts>>
    /\ UNCHANGED outsideApp

InitApp ==
    /\ runtime = LatestRuntime
    /\ fn = "continue-story"
    /\ pc = "idle"
    /\ event = NoEvent
    /\ calls = << >>
    /\ outbound = NoCommand
    /\ fetched = NoFetch
    /\ inferred = NoInference
    /\ caught = NoError
    /\ response = NoResponse
    /\ secretsCache = Null
    /\ secretStore = PlaceholderSecret
    /\ storeReads = 0
    /\ Created
    /\ NotDeploying
    /\ environments \in EnvironmentNames \X EnvironmentNames
    /\ names = <<NotSynthesized, NotSynthesized>>
    /\ contexts \in Contexts \X Contexts
    /\ assembly = <<NotAssembled, NotAssembled>>
    /\ NotBootstrapping
    /\ NotBrowsing

NextApp == Synthesize

SpecApp == InitApp /\ [][NextApp]_vars

-----------------------------------------------------------------------------
(* bootstrap-cdk.sh, one command at a time *)

\* The script after a command that is not tested (set -e).
AfterCommand(code, next) ==
    IF code # 0 /\ ErrExit
    THEN [bootstrap EXCEPT !.pc = "exited", !.exit = code]
    ELSE [bootstrap EXCEPT !.pc = next]

\* The operator runs the script.
StartBootstrap ==
    /\ bootstrap.pc = "none"
    /\ bootstrap' = [bootstrap EXCEPT
                       !.pc = "sts",
                       !.PIPELINE_STACK_NAME = OrDefault(bootstrapArgs.stack, PipelineStackId)]
    /\ UNCHANGED <<bootstrapArgs, stacksInAccount>>
    /\ UNCHANGED outsideBootstrap

\* ACCOUNT=$(aws sts get-caller-identity --query Account --output text)
GetAccount ==
    /\ bootstrap.pc = "sts"
    /\ \E code \in {0, 255} : bootstrap' = AfterCommand(code, "stack-check")
    /\ UNCHANGED <<bootstrapArgs, stacksInAccount>>
    /\ UNCHANGED outsideBootstrap

\* if ! aws cloudformation describe-stacks --stack-name $PIPELINE_STACK_NAME ...;
\* then ...; exit 1; fi
CheckPipelineStack ==
    /\ bootstrap.pc = "stack-check"
    /\ \E code \in {0, 255} :
         /\ code = 0 => StackExists(stacksInAccount, bootstrap.PIPELINE_STACK_NAME)
         /\ bootstrap' = IF code # 0 THEN [bootstrap EXCEPT !.pc = "exited", !.exit = 1]
                         ELSE [bootstrap EXCEPT !.pc = "build-role"]
    /\ UNCHANGED <<bootstrapArgs, stacksInAccount>>
    /\ UNCHANGED outsideBootstrap

\* BUILD_ROLE_ARN: the stack output unless $2 is given.
ExtractBuildRole ==
    /\ bootstrap.pc = "build-role"
    /\ IF Positional(bootstrapArgs.build) = ""
       THEN \E code \in {0, 255} :
              bootstrap' = [AfterCommand(code, "deploy-role") EXCEPT
                              !.BUILD_ROLE_ARN =
                                 IF code = 0
                                 THEN QueryOutput(stacksInAccount.pipeline, "BuildRoleArn")
                                 ELSE ""]
       ELSE bootstrap' = [bootstrap EXCEPT !.pc = "deploy-role",
                                           !.BUILD_ROLE_ARN = Positional(bootstrapArgs.build)]
    /\ UNCHANGED <<bootstrapArgs, stacksInAccount>>
    /\ UNCHANGED outsideBootstrap

\* DEPLOY_ROLE_ARN: the stack output unless $3 is given.
ExtractDeployRole ==
    /\ bootstrap.pc = "deploy-role"
    /\ IF Positional(bootstrapArgs.deploy) = ""
       THEN \E code \in {0, 255} :
              bootstrap' = [AfterCommand(code, "validate") EXCEPT
                              !.DEPLOY_ROLE_ARN =
                                 IF code = 0
                                 THEN QueryOutput(stacksInAccount.pipeline, "DeployRoleArn")
                                 ELSE ""]
       ELSE bootstrap' = [bootstrap EXCEPT !.pc = "validate",
                                           !.DEPLOY_ROLE_ARN = Positional(bootstrapArgs.deploy)]
    /\ UNCHANGED <<bootstrapArgs, stacksInAccount>>
    /\ UNCHANGED outsideBootstrap

\* Validate role ARNs were found: a warning for the build role, exit 1 for
\* the deploy role.
ValidateRoles ==
    /\ bootstrap.pc = "validate"
    /\ LET warns == ~RoleFound(bootstrap.BUILD_ROLE_ARN)
           warned == [bootstrap EXCEPT
                        !.warned = warns,
                        !.BUILD_ROLE_ARN = IF warns THEN "" ELSE bootstrap.BUILD_ROLE_ARN]
       IN  bootstrap' = IF ~RoleFound(bootstrap.DEPLOY_ROLE_ARN)
                        THEN [warned EXCEPT !.pc = "exited", !.exit = 1]
                        ELSE [warned EXCEPT !.pc = "toolkit-check"]
    /\ UNCHANGED <<bootstrapArgs, stacksInAccount>>
    /\ UNCHANGED outsideBootstrap

\* if aws cloudformation describe-stacks --stack-name CDKToolkit ...: either
\* branch only prints.
CheckBootstrapStatus ==
    /\ bootstrap.pc = "toolkit-check"
    /\ bootstrap' = [bootstrap EXCEPT !.pc = "cdk-bootstrap"]
    /\ UNCHANGED <<bootstrapArgs, stacksInAccount>>
    /\ UNCHANGED outsideBootstrap

\* npx cdk bootstrap aws://$ACCOUNT/$REGION $TRUST_ARGS ...
RunCdkBootstrap ==
    /\ bootstrap.pc = "cdk-bootstrap"
    /\ LET TRUST_ARGS == TrustArgs(bootstrap.DEPLOY_ROLE_ARN, bootstrap.BUILD_ROLE_ARN) IN
       \E code \in {0, 1} :
         /\ bootstrap' = [AfterCommand(code, "success") EXCEPT
                            !.TRUST_ARGS = TRUST_ARGS, !.bootstrapped = TRUE]
         /\ stacksInAccount' =
              IF code = 0
              THEN [stacksInAccount EXCEPT !.toolkit = [trust |-> Trusted(TRUST_ARGS)]]
              ELSE stacksInAccount
    /\ UNCHANGED bootstrapArgs
    /\ UNCHANGED outsideBootstrap

\* echo "SUCCESS: CDK bootstrap completed successfully" and the end of the script.
FinishBootstrap ==
    /\ bootstrap.pc = "success"
    /\ bootstrap' = [bootstrap EXCEPT !.pc = "exited", !.exit = 0, !.complete = TRUE]
    /\ UNCHANGED <<bootstrapArgs, stacksInAccount>>
    /\ UNCHANGED outsideBootstrap

InitBootstrap ==
    /\ runtime = LatestRuntime
    /\ fn = "continue-story"
    /\ pc = "idle"
    /\ event = NoEvent
    /\ calls = << >>
    /\ outbound = NoCommand
    /\ fetched = NoFetch
    /\ inferred = NoInference
    /\ caught = NoError
    /\ response = NoResponse
    /\ secretsCache = Null
    /\ secretStore = PlaceholderSecret
    /\ storeReads = 0
    /\ Created
    /\ NotDeploying
    /\ NotSynthesizing
    /\ bootstrapArgs \in [stack : StackNameArgs, build : BuildRoleArgs, deploy : DeployRoleArgs]
    /\ bootstrap = NoBootstrap
    /\ stacksInAccount \in [pipeline : {NoStack} \cup StackOutputs, toolkit : Toolkits]
    /\ NotBrowsing

NextBootstrap ==
    \/ StartBootstrap
    \/ GetAccount
    \/ CheckPipelineStack
    \/ ExtractBuildRole
    \/ ExtractDeployRole
    \/ ValidateRoles
    \/ CheckBootstrapStatus
    \/ RunCdkBootstrap
    \/ FinishBootstrap

SpecBootstrap == InitBootstrap /\ [][NextBootstrap]_vars

-----------------------------------------------------------------------------
(* A request through the distribution *)

\* The distribution answers the viewer once the origin has answered.
Deliver ==
    /\ viewer = NoResponse
    /\ viewer' = Distribution(origin.response, origin.entryDocumentStored)
    /\ UNCHANGED origin
    /\ UNCHANGED outsideDistribution

InitDistribution ==
    /\ runtime \in Runtimes
    /\ fn = "continue-story"
    /\ pc = "idle"
    /\ event = NoEvent
    /\ calls = << >>
    /\ outbound = NoCommand
    /\ fetched = NoFetch
    /\ inferred = NoInference
    /\ caught = NoError
    /\ response = NoResponse
    /\ secretsCache = Null
    /\ secretStore = PlaceholderSecret
    /\ storeReads = 0
    /\ Created
    /\ NotDeploying
    /\ NotSynthesizing
    /\ NotBootstrapping
    /\ \E path \in ViewerPaths, stored \in BOOLEAN :
         \E answer \in OriginResponses(path) :
           origin = [path |-> path, response |-> answer, entryDocumentStored |-> stored]
    /\ viewer = NoResponse

NextDistribution == Deliver

SpecDistribution == InitDistribution /\ [][NextDistribution]_vars

-----------------------------------------------------------------------------
(* Reading the current request, for the properties below *)

BodyAbsentOrEmpty == ~Truthy(event.body)

BodyMalformed == ~BodyAbsentOrEmpty /\ ~JSONparse(event.body).ok

\* The JSON value the body denotes (an absent or empty body counts as {}).
BodyValue == IF BodyAbsentOrEmpty THEN [t |-> "object"] ELSE JSONparse(event.body).value

Field(k) == IF BodyValue.t = "object" /\ k \in DOMAIN BodyValue THEN BodyValue[k] ELSE Undefined

Lacks(k) == Field(k) = Undefined

Finished == pc = "done" /\ event.httpMethod \in Methods

HasFixedCors(headers) ==
    /\ {"Access-Control-Allow-Origin", "Access-Control-Allow-Headers",
        "Access-Control-Allow-Methods"} \subseteq DOMAIN headers
    /\ headers["Access-Control-Allow-Origin"] = "*"
    /\ headers["Access-Control-Allow-Headers"] = "authorization, x-client-info, apikey, content-type"
    /\ headers["Access-Control-Allow-Methods"] = "GET, POST, OPTIONS"

-----------------------------------------------------------------------------
(* Properties *)

\* C1: every non-OPTIONS continue-story request whose JSON body lacks
\* previousSegments or genre (an absent or empty body included) is answered
\* 400 'previousSegments and genre are required' without an inference call.
C1_MissingFieldsGive400 ==
    (/\ fn = "continue-story"
     /\ Finished
     /\ event.httpMethod # "OPTIONS"
     /\ ~BodyMalformed
     /\ Lacks("previousSegments") \/ Lacks("genre"))
    => /\ response.statusCode = 400
       /\ response.body = "{\"error\":\"previousSegments and genre are required\"}"
       /\ calls = << >>

\* C2: every non-OPTIONS suggest-improvements request whose JSON body lacks
\* segmentId (an absent or empty body included) is answered 400 'Segment ID
\* is required' before any secret-store, datastore or inference call.
C2_MissingSegmentIdGives400 ==
    (/\ fn = "suggest-improvements"
     /\ Finished
     /\ event.httpMethod # "OPTIONS"
     /\ ~BodyMalformed
     /\ Lacks("segmentId"))
    => /\ response.statusCode = 400
       /\ response.body = "{\"error\":\"Segment ID is required\"}"
       /\ calls = << >>

\* The request names a segment the datastore does not hold.
UnknownSegment ==
    /\ fn = "suggest-improvements"
    /\ ~BodyMalformed
    /\ Truthy(Field("segmentId"))
    /\ TemplateString(Field("segmentId")) \notin DOMAIN StoredSegments

\* C3 (as stated): every suggest-improvements request with a segmentId the
\* datastore does not hold is answered 404 'Segment not found', with no call
\* to the inference service.
C3_EveryUnknownSegmentGives404 ==
    (Finished /\ UnknownSegment)
    => /\ response.statusCode = 404
       /\ response.body = "{\"error\":\"Segment not found\"}"
       /\ \A i \in 1..Len(calls) : calls[i] # "inference"

\* C3: a suggest-improvements request with a segmentId the datastore does
\* not hold never reaches the inference service.  When the handler gets as
\* far as the datastore read, the read finds no row or fails and the
\* invocation ends with 404 'Segment not found'.  When it does not, the
\* request was an OPTIONS preflight (200, before any call), or loading the
\* secrets failed or gave a bundle without datastore credentials (429 or 500),
\* and the datastore was never read.
C3_UnknownSegmentGives404 ==
    /\ UnknownSegment => \A i \in 1..Len(calls) : calls[i] # "inference"
    /\ (UnknownSegment /\ fetched # NoFetch)
         => /\ pc = "done"
            /\ calls \in {<<"secrets", "datastore">>, <<"datastore">>}
            /\ response.statusCode = 404
            /\ response.body = "{\"error\":\"Segment not found\"}"
    /\ (UnknownSegment /\ Finished /\ fetched = NoFetch)
         => /\ \A i \in 1..Len(calls) : calls[i] # "datastore"
            /\ response.statusCode \in {200, 429, 500}
            /\ response.statusCode = 200 <=> event.httpMethod = "OPTIONS"
            /\ response.statusCode = 200 => calls = << >>

\* A request for the unknown segment seg-9 was answered 404 after the secrets
\* were loaded and the datastore read returned no row.
C3_Witness ==
    /\ fn = "suggest-improvements"
    /\ pc = "done"
    /\ fetched.error = NoRows
    /\ Field("segmentId") = Str("seg-9")
    /\ calls = <<"secrets", "datastore">>
    /\ response.statusCode = 404

\* The text of the one message of the inference request that was sent.
OutboundText == outbound.body.messages[1].content[1].text

\* C4: in continue-story the system prompt is the genre's own entry for
\* 'scary', 'funny' and 'sci-fi', and the sci-fi prompt for every other
\* genre string ('fantasy', 'constructor', 'toString', ... included).
C4_GenreFallsBackToSciFi ==
    (/\ fn = "continue-story"
     /\ pc \in {"inference", "done"}
     /\ calls # << >>
     /\ Field("genre").t = "string")
    => LET g == Field("genre").s
           expected == IF g \in {"scary", "funny", "sci-fi"}
                       THEN genrePrompts[g] ELSE genrePrompts["sci-fi"]
       IN  OutboundText =
             expected \o "\n\n"
               \o UserPrompt(Field("genre"), StoryContext(Field("previousSegments")).value)

\* C5: an OPTIONS request to either handler is answered 200 with an empty
\* body and exactly the three cross-origin headers, whatever the body and the
\* secret cache, and without any secret-store, datastore or inference call.
C5_OptionsPreflight ==
    (Finished /\ event.httpMethod = "OPTIONS")
    => /\ response.statusCode = 200
       /\ response.body = ""
       /\ DOMAIN response.headers =
            {"Access-Control-Allow-Origin", "Access-Control-Allow-Headers",
             "Access-Control-Allow-Methods"}
       /\ HasFixedCors(response.headers)
       /\ calls = << >>
       /\ fetched = NoFetch /\ inferred = NoInference

C5_Witness ==
    /\ fn = "suggest-improvements"
    /\ Finished
    /\ event.httpMethod = "OPTIONS"
    /\ BodyMalformed
    /\ Truthy(secretsCache)
    /\ response.statusCode = 200

\* C6: a rate-limit or quota error of the inference call is answered 429 with
\* the fixed message, and a 429 is returned only for a rate-limit or quota
\* error that came from the inference service.
C6_RateLimitOnlyFromInference ==
    Finished =>
      /\ (caught.origin = "inference" /\ caught.error.name \in RateLimitNames)
           => /\ response.statusCode = 429
              /\ response.body = "{\"error\":\"Rate limit exceeded. Please try again in a moment.\"}"
      /\ response.statusCode = 429
           => (caught.origin = "inference" /\ caught.error.name \in RateLimitNames)

\* A failure other than a missing field, a segment that does not exist, or a
\* rate-limit/quota error: an error thrown inside the handler (by a service
\* call or by the handler's own code, such as reading the text of a response
\* that has no content block) or an error answer of the datastore.  The set
\* holds the message that failure carries.
OtherFailure ==
    IF caught.origin # "none" /\ caught.error.name \notin RateLimitNames
        THEN {caught.error.message}
    ELSE IF fetched.error \in DatastoreErrors
        THEN {fetched.error.message.s}
    ELSE {}

\* C7: every such other failure (a datastore error, a secret-store error, an
\* inference response without a text block, ...) is answered 500 with the
\* error's message, or 'An error occurred' when the message is empty.
C7_OtherFailuresGive500 ==
    (Finished /\ OtherFailure # {})
    => /\ response.statusCode = 500
       /\ \E m \in OtherFailure :
            response.body
              = "{\"error\":\"" \o (IF m = "" THEN "An error occurred" ELSE JsonEscape(m)) \o "\"}"

\* C8: a non-OPTIONS request whose body is not parseable as JSON is answered
\* 400 by either handler.
C8_MalformedBodyGives400 ==
    (Finished /\ event.httpMethod # "OPTIONS" /\ BodyMalformed)
    => response.statusCode = 400

\* C9: every response of either handler, on every path, carries the three
\* cross-origin headers with their fixed values.
C9_CorsOnEveryResponse ==
    Finished => HasFixedCors(response.headers)

C9_Witness ==
    /\ Finished
    /\ response.statusCode = 500
    /\ caught.origin = "secrets"
    /\ "Content-Type" \in DOMAIN response.headers

\* The transcript the contract describes: one line per segment, in order,
\* separated by blank lines.
RECURSIVE ExpectedTranscript(_)
ExpectedTranscript(segs) ==
    IF segs = << >> THEN ""
    ELSE LET line == (IF segs[1].is_ai_generated = Bool(TRUE) THEN "[AI]: " ELSE "[User]: ")
                        \o segs[1].content.s
         IN  IF Len(segs) = 1 THEN line
             ELSE line \o "\n\n" \o ExpectedTranscript(Tail(segs))

\* C10: the continue-story transcript has one line per segment, in the
\* given order, tagged '[AI]: ' when is_ai_generated is true and '[User]: '
\* otherwise, and the one inference request carries temperature 0.7,
\* max_tokens 4096 and exactly one message, of role user.
C10_TranscriptAndSampling ==
    (fn = "continue-story" /\ calls # << >>)
    => /\ calls = <<"inference">>
       /\ outbound.body.temperature = "0.7"
       /\ outbound.body.max_tokens = 4096
       /\ Len(outbound.body.messages) = 1
       /\ outbound.body.messages[1].role = "user"
       /\ Len(MapLines(Field("previousSegments").items)) = Len(Field("previousSegments").items)
       /\ OutboundText =
            TemplateString(SystemPrompt(Field("genre"))) \o "\n\n"
              \o "Continue this " \o TemplateString(Field("genre"))
              \o " story with 2-3 engaging paragraphs that naturally flow from what came before. Make it creative and compelling:\n\n"
              \o ExpectedTranscript(Field("previousSegments").items)
              \o "\n\nYour continuation:"

C10_Witness ==
    /\ fn = "continue-story"
    /\ pc = "inference"
    /\ Field("genre") = Str("scary")
    /\ Len(Field("previousSegments").items) = 2
    /\ Field("previousSegments").items[1].is_ai_generated = Bool(FALSE)
    /\ Field("previousSegments").items[1].content = Str("It was a dark night.")
    /\ Field("previousSegments").items[2].is_ai_generated = Bool(TRUE)
    /\ OutboundText =
         genrePrompts["scary"] \o "\n\n"
           \o "Continue this scary story with 2-3 engaging paragraphs that naturally flow from what came before. Make it creative and compelling:\n\n"
           \o "[User]: It was a dark night.\n\n[AI]: The door creaked."
           \o "\n\nYour continuation:"

-----------------------------------------------------------------------------
(* The secret cache over the life of a process *)

\* C11 (as stated): over the life of a process the secret store is read at
\* most once, whatever the reads returned.
C11_StoreReadOnce == storeReads <= 1

\* C11: once a read has filled the cache with a bundle (a SecretString that
\* parsed to a truthy value), no step of any later invocation reads the store
\* again and the cache keeps that bundle, whatever the store holds by then.
C11_CachedBundleIsFinal ==
    [][Truthy(secretsCache) => (storeReads' = storeReads /\ secretsCache' = secretsCache
                                 /\ pc' # "secrets")]_vars

\* A later invocation is reading the datastore with the cached bundle, having
\* made no call to the secret store, while the store holds another bundle.
C11_Witness ==
    /\ pc = "datastore"
    /\ calls = <<"datastore">>
    /\ Truthy(secretsCache)
    /\ storeReads = 1
    /\ secretStore \in SecretStrings \ {Undefined, Str("{")}
    /\ secretStore.parsed # secretsCache

-----------------------------------------------------------------------------
(* One inference call per invocation *)

InferenceCalls == Cardinality({i \in DOMAIN calls : calls[i] = "inference"})

ResultKey == IF fn = "continue-story" THEN "continuation" ELSE "suggestions"

\* The content of the inference response received.
ReplyContent == Get(JSONparse(inferred.value).value, "content")

\* The positions of the text blocks in the content of the response.
TextBlocks ==
    IF ReplyContent.t # "array" THEN {}
    ELSE {i \in 1..Len(ReplyContent.items) :
            /\ ReplyContent.items[i].t = "object"
            /\ {"type", "text"} \subseteq DOMAIN ReplyContent.items[i]
            /\ ReplyContent.items[i].type = Str("text")
            /\ ReplyContent.items[i].text.t = "string"}

\* The first generated text block, when there is one.
FirstTextBlock ==
    ReplyContent.items[CHOOSE i \in TextBlocks : \A j \in TextBlocks : i <= j]

\* The body JSON.stringify gives for the result key and a text.
BodyWith(text) == "{\"" \o ResultKey \o "\":\"" \o JsonEscape(text) \o "\"}"

-----------------------------------------------------------------------------
(* Order of the pipeline's stages and actions *)

StageOrder ==
    <<"Source", "UpdatePipeline", "Quality", "Build", "DeployDev", "ManualApproval", "DeployProd">>

\* The names of the actions declared in the stage called name.
ActionsOf(name) == {p.action.actionName : p \in {q \in Placements : stages[q.stage].stageName = name}}

\* Execution e has begun action a.
Begun(e, a) == actionState[e][a] # "idle"

\* C13: the pipeline declares exactly the seven stages Source, UpdatePipeline,
\* Quality, Build, DeployDev, ManualApproval, DeployProd in this order; in
\* every execution, also while other executions are under way, an action of a
\* stage has begun only if every action of every earlier stage has succeeded
\* in that execution; and the three Quality actions, like the three Build
\* actions, are not ordered among themselves: they begin together.
C13_SevenStagesInOrder ==
    /\ [i \in DOMAIN stages |-> stages[i].stageName] = StageOrder
    /\ \A e \in Executions :
         \A i \in 1..7, j \in 1..7 :
           i < j => \A a \in ActionsOf(StageOrder[j]) :
                      Begun(e, a) => \A b \in ActionsOf(StageOrder[i]) : actionState[e][b] = "succeeded"
    /\ \A name \in {"Quality", "Build"} :
         /\ Cardinality(ActionsOf(name)) = 3
         /\ \A a \in ActionsOf(name), b \in ActionsOf(name) :
              /\ ~Precedes(a, b)
              /\ \A e \in Executions : Begun(e, a) <=> Begun(e, b)

\* The third execution went through all seven stages: it superseded the
\* second one, which waited for the approval stage while the first one was
\* in it, and entered that stage when the first one was rejected.
C13_Witness ==
    /\ execution = 3
    /\ actionState[1]["ApproveProductionDeployment"] = "failed"
    /\ Superseded(2)
    /\ Passed(actionState[2]) = 5
    /\ actionState[3]["HealthCheckProd"] = "succeeded"
    /\ deployed.prod.backend = 3
    /\ approvals = {3}

ProdActions == {"DeployBackendProd", "DeployFrontendProd", "HealthCheckProd"}

\* C14: a prod action (DeployBackendProd, DeployFrontendProd, HealthCheckProd)
\* of an execution has begun only if the manual approval of this same
\* execution was granted, whatever was decided for other executions; the
\* approval is requested only once both dev deploy actions of the execution
\* have succeeded; and whatever is deployed to prod comes from an execution
\* that was approved.
C14_ProdNeedsApproval ==
    /\ \A e \in Executions :
         /\ \A a \in ProdActions :
              Begun(e, a) => /\ actionState[e]["ApproveProductionDeployment"] = "succeeded"
                             /\ e \in approvals
         /\ Begun(e, "ApproveProductionDeployment")
              => /\ actionState[e]["DeployBackendDev"] = "succeeded"
                 /\ actionState[e]["DeployFrontendDev"] = "succeeded"
    /\ \A part \in {"backend", "frontend"} :
         deployed.prod[part] # 0 => deployed.prod[part] \in approvals

\* The approved first execution is deploying the prod backend while the
\* second one, already deployed to dev, waits for its own approval.
C14_Witness ==
    /\ execution = 2
    /\ approvals = {1}
    /\ actionState[1]["DeployBackendProd"] = "running"
    /\ actionState[2]["ApproveProductionDeployment"] = "running"
    /\ deployed.dev = [backend |-> 2, frontend |-> 2]
    /\ deployed.prod = [backend |-> 0, frontend |-> 0]

\* C15: no stage declares what to do on a failure (no retry, no rollback),
\* so once an action of an execution has failed (a rejected approval
\* included), no action of that execution that had not begun begins (none of
\* a later stage, none of a later run order) and the failed action stays
\* failed; what is deployed changes only by a deploy action of an execution
\* that succeeds, never back to an earlier revision; and the number of
\* executions changes only by a trigger, which starts no action of an
\* execution that has stopped and deploys nothing itself.
C15_FailureHalts ==
    [][/\ \A e \in Executions :
            Halted(actionState[e])
              => \A b \in ActionNames :
                    /\ actionState[e][b] = "idle" => actionState'[e][b] = "idle"
                    /\ actionState[e][b] = "failed" => actionState'[e][b] = "failed"
       /\ \A env \in {"dev", "prod"}, part \in {"backend", "frontend"} :
            deployed'[env][part] # deployed[env][part]
              => /\ deployed'[env][part] > deployed[env][part]
                 /\ ~Halted(actionState[deployed'[env][part]])
                 /\ \E a \in ActionNames :
                      /\ Placement(a).action.environment = env
                      /\ Placement(a).action.deploys = part
                      /\ actionState[deployed'[env][part]][a] = "running"
                      /\ actionState'[deployed'[env][part]][a] = "succeeded"
       /\ execution' # execution
           => /\ execution' = execution + 1
              /\ actionState' = actionState
              /\ deployed' = deployed
      ]_vars

\* The second execution stopped at a failed prod frontend deploy: the health
\* check never began, and prod keeps the new backend next to the frontend of
\* the first execution.
C15_Witness ==
    /\ execution = 2
    /\ actionState[2]["DeployFrontendProd"] = "failed"
    /\ actionState[2]["HealthCheckProd"] = "idle"
    /\ deployed.prod = [backend |-> 2, frontend |-> 1]
    /\ Settled

-----------------------------------------------------------------------------
(* deploy.sh: the secret, failing commands, repeated runs, the cache *)

\* C16: a step of deploy.sh leaves an existing secret as it is, in every run
\* and also when the existence check failed although the secret exists; the
\* secret comes into being only by a successful create-secret, holding the
\* placeholder values.
C16_SecretNeverOverwritten ==
    [][/\ (secretStore # NoSecret /\ sh' # sh) => secretStore' = secretStore
       /\ (secretStore = NoSecret /\ secretStore' # NoSecret)
           => /\ secretStore' = PlaceholderSecret
              /\ trail' = Append(trail, [line |-> 27, command |-> "aws secretsmanager create-secret",
                                         exit |-> 0, exempt |-> FALSE])
      ]_vars

\* In a second run the existence check failed although the operator's bundle
\* is stored; create-secret was refused, the run ended, the bundle is intact.
C16_Witness ==
    /\ Len(exits) = 1
    /\ sh.pc = "exited"
    /\ sh.exit # 0
    /\ trail # << >>
    /\ trail[Len(trail)].line = 27
    /\ secretStore \notin {NoSecret, PlaceholderSecret}

\* The run is over with a failure: non-zero exit, no 'Deployment complete'.
Aborted == sh.pc = "exited" /\ sh.exit # 0 /\ ~sh.complete

\* C17 (as stated): whichever command exits non-zero, it is the last command
\* of the run and the run is aborted.
C17_EveryFailureAborts ==
    \A i \in DOMAIN trail : trail[i].exit # 0 => (i = Len(trail) /\ Aborted)

\* C17: the commands of a run are executed in script order (the four
\* commands of the lambda loop, lines 46 to 49, once per lambda directory that
\* has a package.json, in the order of the directories); a command that exits
\* non-zero and whose exit status the script does not take up itself (it is
\* neither the condition of an `if`, nor followed by `|| echo "N/A"`, nor the
\* basename substituted into the argument of the echo of line 46) is the last
\* command of the run, which is then aborted; a failing identity check aborts
\* the run too; and 'Deployment complete' is printed only when every command
\* that is not exempt in this way succeeded.
C17_FailFast ==
    /\ \A i \in DOMAIN trail, j \in DOMAIN trail :
         i < j => \/ trail[i].line < trail[j].line
                  \/ /\ trail[i].line \in 46..49
                     /\ trail[j].line \in 46..49
                     /\ \E a \in DOMAIN args.tree, b \in DOMAIN args.tree :
                          /\ a < b
                          /\ trail[i].command = LoopCommand(trail[i].line, args.tree[a].name)
                          /\ trail[j].command = LoopCommand(trail[j].line, args.tree[b].name)
    /\ \A i \in DOMAIN trail :
         (trail[i].exit # 0 /\ (~trail[i].exempt \/ trail[i].line = 14))
            => (i = Len(trail) /\ Aborted)
    /\ sh.complete
         => /\ sh.exit = 0
            /\ \A i \in DOMAIN trail : ~trail[i].exempt => trail[i].exit = 0

\* The WebsiteURL query failed and ended the run, after the ApiUrl query and
\* a basename of the lambda loop had failed without ending it and after two
\* lambda directories had got their dependencies.
C17_Witness ==
    /\ Aborted
    /\ Cardinality({i \in DOMAIN trail : trail[i].line = 48}) = 2
    /\ \E i \in DOMAIN trail : trail[i].line = 46 /\ trail[i].exit # 0
    /\ trail # << >>
    /\ trail[Len(trail)].line = 85
    /\ \E i \in DOMAIN trail : trail[i].line = 80 /\ trail[i].exit # 0

\* An earlier run of the behaviour ended with exit code 0.
AfterSuccessfulRun == \E i \in DOMAIN exits : exits[i] = 0

\* What a complete run leaves for the value WITH_ASSETS has after line 8.
Provisioned(WITH_ASSETS) ==
    [cdk |-> TRUE, bootstrapped |-> TRUE, api |-> "deployed",
     frontend |-> [state |-> "deployed", withAssets |-> (WITH_ASSETS = "true")],
     bucket |-> IF WITH_ASSETS = "true" THEN "bundle" ELSE "empty"]

InvalidationIssued == \E i \in DOMAIN trail : trail[i].line = 103

\* C19: the cache invalidation is issued only in a run with WITH_ASSETS "true"
\* whose stack deploy succeeded and uploaded the assets and whose
\* DISTRIBUTION_ID is an id; a run that got past the output queries has issued
\* it exactly when WITH_ASSETS is "true" and DISTRIBUTION_ID is an id; no run
\* with another WITH_ASSETS value issues it.
C19_InvalidationIffAssets ==
    /\ InvalidationIssued
         => /\ sh.WITH_ASSETS = "true"
            /\ sh.uploaded
            /\ \E i \in DOMAIN trail : trail[i].line = 74 /\ trail[i].exit = 0
            /\ sh.DISTRIBUTION_ID \notin {"None", ""}
    /\ sh.pc \in {"finish", "exited"} /\ (\E i \in DOMAIN trail : trail[i].line = 95)
         => (InvalidationIssued
               <=> (sh.WITH_ASSETS = "true" /\ sh.uploaded /\ sh.DISTRIBUTION_ID \notin {"None", ""}))
    /\ sh.WITH_ASSETS # "true" => ~InvalidationIssued

\* A run started with WITH_ASSETS empty (so "true" by default) completed after
\* uploading the assets and issuing the invalidation.
C19_Witness ==
    /\ args.WITH_ASSETS = ""
    /\ sh.complete
    /\ sh.uploaded
    /\ InvalidationIssued

-----------------------------------------------------------------------------
(* Environments and the resources named for them *)

\* The role of deployment i may read the secret of deployment j: the secret's
\* name, with the suffix the secret store appends, begins with the granted
\* name.
MayRead(i, j) == IsPrefix(names[i].secretsAccess, names[j].secret \o <<"-", "A", "b", "C", "d", "E", "f">>)

\* C20: two deployments for distinct environment names have no named resource
\* in common (stack, secret, function, log group, export and bucket names),
\* and the execution role of either may not read the other's secret.
C20_EnvironmentsShareNothing ==
    (/\ environments[1] # environments[2]
     /\ names[1] # NotSynthesized
     /\ names[2] # NotSynthesized)
    => /\ names[1].named \cap names[2].named = {}
       /\ ~MayRead(1, 2)
       /\ ~MayRead(2, 1)

StacksOfType(i, type) == {s \in assembly[i].stacks : s.type = type}

\* C21: a synthesis with pipelineOnly = 'true' constructs no stack other than
\* the PipelineStack (no ApiStack, no FrontendStack); any other synthesis
\* constructs exactly one ApiStack and one FrontendStack, both of its one
\* environment, with the FrontendStack depending on the ApiStack.
C21_TwoModes ==
    \A i \in DOMAIN assembly :
        assembly[i] # NotAssembled =>
            IF contexts[i].pipelineOnly = "true"
            THEN /\ assembly[i].stacks \subseteq {Stack("PipelineStack", PipelineStackId)}
                 /\ assembly[i].dependencies = {}
            ELSE /\ StacksOfType(i, "ApiStack")
                      = {Stack("ApiStack", Text(ApiIdPrefix \o environments[i]))}
                 /\ StacksOfType(i, "FrontendStack")
                      = {Stack("FrontendStack", Text(FrontendIdPrefix \o environments[i]))}
                 /\ assembly[i].dependencies
                      = StacksOfType(i, "FrontendStack") \X StacksOfType(i, "ApiStack")

\* One synthesis in each mode, the pipeline-only one with a connection.
C21_Witness ==
    /\ contexts[1].pipelineOnly = "true"
    /\ assembly[1].stacks = {Stack("PipelineStack", PipelineStackId)}
    /\ contexts[2].pipelineOnly = "TRUE"
    /\ assembly[2] # NotAssembled
    /\ Cardinality(assembly[2].stacks) = 3

\* The bundle getSecrets() returned lacks a credential the handler needs.
BundleLacksCredentials ==
    /\ secretsCache.t = "object"
    /\ \/ ~Truthy(Get(secretsCache, "SUPABASE_URL"))
       \/ ~Truthy(Get(secretsCache, "SUPABASE_SERVICE_ROLE_KEY"))

\* The request passed the handler's own checks and asked for the secrets.
AskedForSecrets ==
    /\ event.httpMethod \in Methods \ {"OPTIONS"}
    /\ ~BodyMalformed
    /\ BodyValue.t = "object"
    /\ Truthy(Field("segmentId"))

\* C22: the external calls of a suggest-improvements invocation are, in this
\* order, the secret load (absent when the cache answers), the datastore
\* read and the inference call; the datastore read is sent only with a loaded
\* bundle and the inference call only after the datastore returned a row
\* without error.  With a loaded bundle that lacks SUPABASE_URL or
\* SUPABASE_SERVICE_ROLE_KEY the invocation ends with 500 'Supabase
\* credentials not configured' and no datastore read or inference call.
C22_CallOrder ==
    fn = "suggest-improvements" =>
      /\ calls \in {<< >>, <<"secrets">>, <<"secrets", "datastore">>,
                     <<"secrets", "datastore", "inference">>,
                     <<"datastore">>, <<"datastore", "inference">>}
      /\ (\E i \in DOMAIN calls : calls[i] = "datastore")
            => Truthy(secretsCache) /\ ~BundleLacksCredentials
      /\ (\E i \in DOMAIN calls : calls[i] = "inference")
            => /\ fetched # NoFetch
               /\ ~Truthy(fetched.error)
               /\ Truthy(fetched.data)
      /\ (Finished /\ AskedForSecrets /\ BundleLacksCredentials)
            => /\ response = ErrorResponse(500, "Supabase credentials not configured")
               /\ calls \in {<< >>, <<"secrets">>}

\* A cold invocation loaded a bundle without the service-role key.
C22_Witness ==
    /\ fn = "suggest-improvements"
    /\ Finished
    /\ calls = <<"secrets">>
    /\ secretsCache.t = "object"
    /\ Truthy(Get(secretsCache, "SUPABASE_URL"))
    /\ ~Truthy(Get(secretsCache, "SUPABASE_SERVICE_ROLE_KEY"))
    /\ response.statusCode = 500
    /\ response.body = "{\"error\":\"Supabase credentials not configured\"}"

\* C23: in DeployDev the frontend deploy has begun only if the backend
\* deploy of the execution succeeded; in DeployProd the frontend deploy has
\* begun only if the backend deploy succeeded, and the health check only if
\* the frontend deploy succeeded; a prod action has begun only if both dev
\* deploys of the same execution succeeded, so whatever an execution deployed
\* to prod it had deployed to dev before.
C23_DeployOrder ==
    /\ \A e \in Executions :
         /\ Begun(e, "DeployFrontendDev") => actionState[e]["DeployBackendDev"] = "succeeded"
         /\ Begun(e, "DeployFrontendProd") => actionState[e]["DeployBackendProd"] = "succeeded"
         /\ Begun(e, "HealthCheckProd") => actionState[e]["DeployFrontendProd"] = "succeeded"
         /\ \A a \in ProdActions :
              Begun(e, a) => /\ actionState[e]["DeployBackendDev"] = "succeeded"
                             /\ actionState[e]["DeployFrontendDev"] = "succeeded"
                             /\ deployed.dev.backend >= e
                             /\ deployed.dev.frontend >= e
    /\ \A part \in {"backend", "frontend"} :
         /\ deployed.dev.frontend # 0 => deployed.dev.backend >= deployed.dev.frontend
         /\ deployed.prod.frontend # 0 => deployed.prod.backend >= deployed.prod.frontend
         /\ deployed.prod[part] # 0 => /\ deployed.dev.backend >= deployed.prod[part]
                                       /\ deployed.dev.frontend >= deployed.prod[part]

\* The health check of the first execution is running after both prod
\* deploys, which followed both dev deploys; the second execution has
\* deployed its backend to dev in the meantime.
C23_Witness ==
    /\ execution = 2
    /\ actionState[1]["HealthCheckProd"] = "running"
    /\ actionState[1]["DeployFrontendProd"] = "succeeded"
    /\ actionState[2]["DeployFrontendDev"] = "running"
    /\ deployed.dev = [backend |-> 2, frontend |-> 1]
    /\ deployed.prod = [backend |-> 1, frontend |-> 1]

\* The stack bootstrap-cdk.sh is pointed at exists.
PipelineStackExists ==
    StackExists(stacksInAccount, OrDefault(bootstrapArgs.stack, PipelineStackId))

\* The role ARN the script can know: the argument when one is given, else
\* what the stack's outputs hold under key.
KnownRole(arg, key) ==
    IF Positional(arg) # "" THEN Positional(arg)
    ELSE IF PipelineStackExists THEN QueryOutput(stacksInAccount.pipeline, key)
    ELSE ""

\* C24: bootstrap-cdk.sh has run `cdk bootstrap` only if the pipeline stack
\* exists and the deploy role ARN (argument or stack output) is neither empty
\* nor 'None', and then it trusts that role; when the stack does not exist or
\* the deploy role ARN is empty or 'None' the script ends with a non-zero exit
\* and without bootstrapping; a build role ARN that is empty or 'None' gives
\* the warning and a bootstrap that trusts the deploy role alone, and only then.
C24_BootstrapNeedsDeployRole ==
    LET deployRole == KnownRole(bootstrapArgs.deploy, "DeployRoleArn")
        buildRole == KnownRole(bootstrapArgs.build, "BuildRoleArn")
    IN  /\ bootstrap.bootstrapped
             => /\ PipelineStackExists
                /\ deployRole \notin {"", "None"}
                /\ bootstrap.TRUST_ARGS
                     = <<"--trust", deployRole>>
                         \o (IF buildRole \in {"", "None"} THEN << >>
                             ELSE <<"--trust", buildRole>>)
                /\ bootstrap.warned <=> buildRole \in {"", "None"}
        /\ (bootstrap.pc = "exited" /\ (~PipelineStackExists \/ deployRole \in {"", "None"}))
             => /\ bootstrap.exit # 0
                /\ ~bootstrap.bootstrapped
                /\ ~bootstrap.complete
        /\ bootstrap.complete
             => /\ bootstrap.bootstrapped
                /\ bootstrap.exit = 0
                /\ stacksInAccount.toolkit.trust
                     = {deployRole} \cup (IF buildRole \in {"", "None"} THEN {} ELSE {buildRole})

\* The stack has no outputs at all, the deploy role came as $3: the script
\* warned about the build role and bootstrapped with the deploy role alone.
C24_Witness ==
    /\ bootstrap.complete
    /\ bootstrap.warned
    /\ bootstrapArgs.build = Unset
    /\ bootstrapArgs.deploy = DeployRole
    /\ stacksInAccount.pipeline = NoOutputs
    /\ bootstrap.TRUST_ARGS = <<"--trust", DeployRole>>
    /\ stacksInAccount.toolkit = [trust |-> {DeployRole}]

\* C25: an error status a handler produced reaches the browser unchanged
\* through the '/api/*' route: the viewer receives the handler's status,
\* headers and body (so the 404 'Segment not found' arrives as 404 with its
\* JSON body and not as the entry document with status 200).
C25_HandlerErrorsPassThrough ==
    (/\ viewer # NoResponse
     /\ ApiRoute(origin.path)
     /\ origin.response.statusCode >= 400)
    => viewer = origin.response

\* The declared actions that produce the artifact x.
Producers(x) == {p \in Placements : x \in p.action.outputs}

\* C26: every artifact an action takes as input or extra input is the output
\* of exactly one declared action, that action is due before the consumer
\* (earlier stage, or same stage with a lower runOrder), and in every
\* execution the consumer has begun only if the producer has succeeded in
\* that execution.
C26_ArtifactsProducedBeforeUse ==
    \A c \in Placements :
      \A x \in c.action.inputs :
        /\ Cardinality(Producers(x)) = 1
        /\ \A p \in Producers(x) :
             /\ Precedes(p.action.actionName, c.action.actionName)
             /\ \A e \in Executions :
                  Begun(e, c.action.actionName) => actionState[e][p.action.actionName] = "succeeded"

\* The dev backend deploy of the second execution is running on the source,
\* the backend build and the synthesized templates of that execution.
C26_Witness ==
    /\ execution = 2
    /\ actionState[2]["DeployBackendDev"] = "running"
    /\ Placement("DeployBackendDev").action.inputs
         = {"SourceOutput", "BackendBuildOutput", "IacSynthOutput"}
    /\ actionState[2]["Source"] = "succeeded"
    /\ actionState[2]["BackendBuild"] = "succeeded"
    /\ actionState[2]["IacSynth"] = "succeeded"

\* `cdk deploy --all` of the current run ended successfully.
DeploySucceeded ==
    \E i \in DOMAIN trail : trail[i].command = "cdk deploy --all" /\ trail[i].exit = 0

\* C27 (as stated): at the end of every run the stack has uploaded the
\* bundle if and only if the script built it in that run.
C27_UploadedIffBuilt ==
    sh.pc = "exited" => (sh.uploaded <=> sh.built)

\* C27: in every run of deploy.sh, whatever WITH_ASSETS holds, the frontend
\* stack has uploaded the bundle only if the script built it in this run; in
\* every run that reaches `cdk deploy` the command that deploys with assets
\* (line 74) is the one run if and only if the script built the bundle; once
\* `cdk deploy` succeeded the stack has uploaded the bundle if and only if the
\* script built it; and with a value other than 'true' ('TRUE', 'false', ...)
\* nothing is built and nothing is uploaded.
C27_AssetsAgree ==
    /\ sh.uploaded => sh.built
    /\ \A i \in DOMAIN trail :
         trail[i].command = "cdk deploy --all" => (trail[i].line = 74 <=> sh.built)
    /\ DeploySucceeded => (sh.uploaded <=> sh.built)
    /\ DeploySucceeded => (cloud.frontend.withAssets <=> sh.built)
    /\ (sh.pc # "none" /\ sh.WITH_ASSETS # "true") => ~sh.built /\ ~sh.uploaded

\* A run with WITH_ASSETS=TRUE completed: no bundle was built and the stack,
\* deployed with withAssets=false, uploaded none.
C27_Witness ==
    /\ args.WITH_ASSETS = "TRUE"
    /\ sh.complete
    /\ DeploySucceeded
    /\ cloud.frontend = [state |-> "deployed", withAssets |-> FALSE]
    /\ ~sh.built
    /\ ~sh.uploaded

\* The values JSON.parse gives for the payloads the store may hold.
ParsedBundles == {JSONparse(p).value : p \in {q \in SecretStrings : JSONparse(q).ok}}

\* C28: the step that ends a secret-store read changes the cache only to the
\* parsed payload the store holds; when the read was rejected or the payload
\* does not parse, the cache stays empty and the invocation ends with an
\* error response.  While the cache is empty, every invocation that gets past
\* its request checks reads the store again.  The cache is therefore empty or
\* holds a completely parsed payload.
C28_FailedFetchNotCached ==
    /\ [][(pc = "secrets" /\ pc' # "secrets")
            => /\ secretsCache' # secretsCache
                    => /\ JSONparse(secretStore).ok
                       /\ secretsCache' = JSONparse(secretStore).value
               /\ (caught'.origin = "secrets" \/ ~JSONparse(secretStore).ok)
                    => /\ secretsCache' = Null
                       /\ pc' = "done"
                       /\ response'.statusCode \in {429, 500}
          ]_vars
    /\ [][(fn = "suggest-improvements" /\ pc = "idle" /\ pc' # "idle"
               /\ ~Truthy(secretsCache) /\ AskedForSecrets')
            => /\ pc' = "secrets"
               /\ calls' = <<"secrets">>
          ]_vars
    /\ [](secretsCache \in {Null} \cup ParsedBundles)

\* After a read that left the cache empty, a second read of the same process
\* filled it, and the invocation went on to the datastore.
C28_Witness ==
    /\ fn = "suggest-improvements"
    /\ storeReads = 2
    /\ calls = <<"secrets", "datastore">>
    /\ pc = "datastore"
    /\ Truthy(secretsCache)
    /\ secretsCache \in ParsedBundles

\* C29: continue-story answers 400 only when the body lacks previousSegments
\* or genre; a non-OPTIONS request whose JSON body holds both fields (an
\* empty previousSegments list included) is not answered 400 and makes the
\* inference call.
C29_BothFieldsReachInference ==
    (/\ fn = "continue-story"
     /\ Finished
     /\ event.httpMethod # "OPTIONS"
     /\ ~BodyMalformed)
    => /\ response.statusCode = 400 => (Lacks("previousSegments") \/ Lacks("genre"))
       /\ (~Lacks("previousSegments") /\ ~Lacks("genre"))
            => /\ response.statusCode # 400
               /\ calls = <<"inference">>

====
